---- MODULE Spec2Model ----
(***************************************************************************)
(* Transaction builder and execution pipeline of go-sui-sdk.               *)
(*                                                                         *)
(* Go side (builder.go, sui.go, signer.go): the Builder object with its    *)
(* handle field, the SplitCoin pipeline, EstimateGasBudget, the signature  *)
(* check of SignExecuteTransaction.                                        *)
(* Engine side (the transaction_builder WASM module the Go code calls into *)
(* through callFn): modelled from its contract.                            *)
(***************************************************************************)
EXTENDS Integers, Sequences, FiniteSets, TLC

VARIABLES
    ptr,        \* Builder.ptr of every Go Builder object created so far
    eng,        \* engine-side builder behind every handle
    hist,       \* per handle: free_builder / build_transaction calls, in order
    zeroCalls,  \* engine functions that were called with handle 0
    ret,        \* what the last Go-level call returned
    panicked,   \* a callFn panicked (engine trap): the goroutine is gone
    split,      \* the SplitCoin request object of the pipeline
    pc,         \* position of SplitCoin.SignExecuteTx
    bpc,        \* position inside SplitCoin.buildTx
    loc,        \* local variables of SignExecuteTx and buildTx
    trace,      \* Go-level calls made by the running SignExecuteTx, in order
    rpc,        \* RPCs issued by the running SignExecuteTx, in order
    calls,      \* the SignExecuteTx calls made on the SplitCoin object, in order
    mem,        \* the module's linear memory: the allocator's blocks and their content
    gor         \* goroutines building on the same module: position and locals of each

bvars == <<ptr, eng, hist, zeroCalls, ret, panicked>>
pvars == <<split, pc, bpc, loc, trace, rpc, calls>>
cvars == <<mem, gor>>
vars ==
    <<ptr, eng, hist, zeroCalls, ret, panicked, split, pc, bpc, loc, trace, rpc, calls,
      mem, gor>>

(***************************************************************************)
(* Bounds of the model.                                                    *)
(***************************************************************************)
MaxArgs == 2
MaxCmds == 1
MaxSigned == 2
MaxRuns == 2
MaxStatusCalls == 2

(***************************************************************************)
(* uint64: four 16-bit limbs, least significant first.  All arithmetic is  *)
(* Go's: modulo 2^64.                                                      *)
(***************************************************************************)
Limb == 2^16
U64 == [1..4 -> 0..(Limb - 1)]

\* the uint64 of a small natural number (n < 2^31)
N64(n) == <<n % Limb, n \div Limb, 0, 0>>
Zero64 == N64(0)
Max64 == <<Limb - 1, Limb - 1, Limb - 1, Limb - 1>>

\* Go's a + b on uint64 (wraps around)
Add64(a, b) ==
    LET s1 == a[1] + b[1]
        s2 == a[2] + b[2] + s1 \div Limb
        s3 == a[3] + b[3] + s2 \div Limb
        s4 == a[4] + b[4] + s3 \div Limb
    IN  <<s1 % Limb, s2 % Limb, s3 % Limb, s4 % Limb>>

\* Go's a / 10 on uint64: long division, most significant limb first
Div10(a) ==
    LET q4 == a[4] \div 10
        r4 == a[4] % 10
        q3 == (r4 * Limb + a[3]) \div 10
        r3 == (r4 * Limb + a[3]) % 10
        q2 == (r3 * Limb + a[2]) \div 10
        r2 == (r3 * Limb + a[2]) % 10
        q1 == (r2 * Limb + a[1]) \div 10
    IN  <<q1, q2, q3, q4>>

\* a < b on uint64
Less64(a, b) ==
    \/ a[4] < b[4]
    \/ a[4] = b[4] /\ a[3] < b[3]
    \/ a[4] = b[4] /\ a[3] = b[3] /\ a[2] < b[2]
    \/ a[4] = b[4] /\ a[3] = b[3] /\ a[2] = b[2] /\ a[1] < b[1]

\* Go's int32(x) of a uint64: the low 32 bits, two's complement
Int32(x) ==
    IF x[2] >= Limb \div 2 THEN (x[2] - Limb) * Limb + x[1] ELSE x[2] * Limb + x[1]

\* Go's int64(x) < 0 of a uint64: the top bit
Neg64(x) == x[4] >= Limb \div 2

\* Go's uint32(x) of a uint64, as (low limb, high limb)
Uint32(x) == <<x[1], x[2]>>

\* the raw uint64 an engine function returns for the signed status n (64 bits wide)
Raw(n) == IF n >= 0 THEN N64(n) ELSE <<(Limb + n) % Limb, Limb - 1, Limb - 1, Limb - 1>>

\* the small natural number a uint64 holds, -1 when it holds none (engine-side lookup)
Small(x) == IF x[3] = 0 /\ x[4] = 0 /\ x[2] = 0 THEN x[1] ELSE -1

(***************************************************************************)
(* Values the callers supply.                                              *)
(***************************************************************************)
ValidAddrs == {"0xA"}
Addresses == ValidAddrs \cup {"bad"}
ValidDigests == {"digestA"}
Digests == ValidDigests \cup {"!bad"}
ObjectIds == {"0xC"}

\* one byte standing for an address, an object id or a digest in the encoded bytes
Code(s) ==
    CASE s = "0xA" -> 10
      [] s = "0xC" -> 12
      [] s = "digestA" -> 13
      [] OTHER -> 0

\* the 8 little-endian bytes of a uint64
LE8(v) ==
    <<v[1] % 256, v[1] \div 256, v[2] % 256, v[2] \div 256,
      v[3] % 256, v[3] \div 256, v[4] % 256, v[4] \div 256>>

\* the 4 little-endian bytes of a length, and back (binary.LittleEndian.Uint32)
LE4(n) == <<n % 256, (n \div 256) % 256, (n \div 65536) % 256, 0>>
Uint32LE(b) == b[1] + 256 * b[2] + 65536 * b[3] + 16777216 * (b[4] % 128)

RECURSIVE Flatten(_)
Flatten(ss) == IF ss = <<>> THEN <<>> ELSE Head(ss) \o Flatten(Tail(ss))

(***************************************************************************)
(* The engine: one builder behind every handle.  Argument IDs are the      *)
(* positions in the argument table, counted from 0.                        *)
(***************************************************************************)
\* SignExecuteTx makes two builders (the draft and the rebuild): two handles
Handles == {1, 2}

UnusedEngine ==
    [st |-> "unused", hasCfg |-> FALSE, sender |-> "", budget |-> Zero64, price |-> Zero64,
     gas |-> <<>>, args |-> <<>>, gasArg |-> -1, cmds |-> <<>>]

\* new_builder: a fresh, empty builder
NewEngine == [UnusedEngine EXCEPT !.st = "live"]

\* the handle p names a builder the engine still holds
Live(p) == Small(p) \in Handles /\ eng[Small(p)].st = "live"

\* the Argument ID x names a slot of e's argument table
Allocated(e, x) == Small(x) >= 0 /\ Small(x) < Len(e.args)

\* an argument table that counts its slots from 1
Alloc_FromOne(e, a) ==
    [e |-> [e EXCEPT !.args = Append(e.args, a)], raw |-> N64(Len(e.args) + 1)]

\* a new slot of the argument table: the builder after, and the ID returned
Alloc(e, a) == [e |-> [e EXCEPT !.args = Append(e.args, a)], raw |-> N64(Len(e.args))]

Fail(e, code) == [e |-> e, raw |-> Raw(code)]

set_config(e, payload) ==
    IF payload.sender \in ValidAddrs
    THEN [e |-> [e EXCEPT !.hasCfg = TRUE, !.sender = payload.sender,
                          !.budget = payload.gas_budget, !.price = payload.gas_price],
          raw |-> Raw(1)]
    ELSE Fail(e, -1)

add_gas_object(e, payload) ==
    IF payload.digest \notin ValidDigests THEN Fail(e, -2)
    ELSE IF payload.id \notin ObjectIds THEN Fail(e, -1)
    ELSE [e |-> [e EXCEPT !.gas = Append(e.gas, payload)], raw |-> Raw(1)]

\* gas_argument that takes a new slot at every call
gas_argument_NewSlot(e) ==
    [e |-> [e EXCEPT !.args = Append(e.args, [kind |-> "gas"]), !.gasArg = Len(e.args)],
     raw |-> N64(Len(e.args))]

gas_argument(e) ==
    IF e.gasArg >= 0 THEN [e |-> e, raw |-> N64(e.gasArg)]
    ELSE [e |-> [e EXCEPT !.args = Append(e.args, [kind |-> "gas"]), !.gasArg = Len(e.args)],
          raw |-> N64(Len(e.args))]

pure_u64(e, v) == Alloc(e, [kind |-> "pure", bytes |-> LE8(v)])

pure_address(e, addr) ==
    IF addr \in ValidAddrs THEN Alloc(e, [kind |-> "pure", bytes |-> <<Code(addr)>>])
    ELSE Fail(e, -1)

\* input_object: the object id and, where the payload has one, the digest are checked;
\* <<>> is a key the JSON object lacks
input_object(e, payload) ==
    IF payload.id \notin ObjectIds THEN Fail(e, -1)
    ELSE IF payload.digest # <<>> /\ payload.digest[1] \notin ValidDigests THEN Fail(e, -2)
    ELSE Alloc(e, [kind |-> "object", ref |-> payload])

nested_result(e, baseID, subIndex) ==
    Alloc(e, [kind |-> "nested", base |-> baseID, sub |-> subIndex])

\* one command of the sequence: its kind, its single argument, its list of arguments
Command(kind, coin, list) ==
    [kind |-> kind, coin |-> coin, list |-> list, tag |-> "", call |-> <<>>]

\* every Argument ID of the list names a slot of e's argument table
AllAllocated(e, ids) == \A i \in 1..Len(ids) : Allocated(e, ids[i])

\* a command with a result: it is appended and its result gets a new Argument ID
Issue(e, c) ==
    Alloc([e EXCEPT !.cmds = Append(e.cmds, c)], [kind |-> "result", cmd |-> Len(e.cmds)])

\* a command without a result: it is appended, the status is 1
IssueVoid(e, c) == [e |-> [e EXCEPT !.cmds = Append(e.cmds, c)], raw |-> Raw(1)]

command_split_coins(e, coin, amounts) ==
    IF Allocated(e, coin) /\ AllAllocated(e, amounts)
    THEN Issue(e, Command("SplitCoins", coin, amounts))
    ELSE Fail(e, -1)

command_merge_coins(e, target, sources) ==
    IF Allocated(e, target) /\ AllAllocated(e, sources)
    THEN IssueVoid(e, Command("MergeCoins", target, sources))
    ELSE Fail(e, -1)

command_transfer_objects(e, objects, recipient) ==
    IF Allocated(e, recipient) /\ AllAllocated(e, objects)
    THEN IssueVoid(e, Command("TransferObjects", recipient, objects))
    ELSE Fail(e, -1)

\* command_make_move_vec: the element type comes from the type tag or, without one,
\* from the elements
command_make_move_vec(e, typeTag, elems) ==
    IF AllAllocated(e, elems) /\ (typeTag # "" \/ elems # <<>>)
    THEN Issue(e, [Command("MakeMoveVec", Zero64, elems) EXCEPT !.tag = typeTag])
    ELSE Fail(e, -1)

\* one entry of "arguments" in the payload of command_move_call names an argument
\* ("id") or carries a literal ("pure_bcs"); <<>> is a key the JSON object lacks
OneForm(j) == (j.id = <<>>) # (j.pure_bcs = <<>>)

command_move_call(e, payload) ==
    IF \A i \in 1..Len(payload.arguments) :
            /\ OneForm(payload.arguments[i])
            /\ payload.arguments[i].id # <<>> => Allocated(e, payload.arguments[i].id[1])
    THEN Issue(e, [Command("MoveCall", Zero64, <<>>) EXCEPT !.tag = payload.function,
                                                           !.call = payload.arguments])
    ELSE Fail(e, -1)

\* command_upgrade: the ticket is an argument of the table; the result is the receipt
command_upgrade(e, payload) ==
    IF Allocated(e, payload.ticket_arg_id)
    THEN Issue(e, [Command("Upgrade", payload.ticket_arg_id, <<>>) EXCEPT !.tag = payload.package])
    ELSE Fail(e, -1)

\* a nested result names an output its base command has
NestedInRange(e, a) ==
    /\ Allocated(e, a.base)
    /\ LET b == e.args[Small(a.base) + 1] IN
        /\ b.kind = "result"
        /\ e.cmds[b.cmd + 1].kind = "SplitCoins"
        /\ Small(a.sub) >= 0
        /\ Small(a.sub) < Len(e.cmds[b.cmd + 1].list)

\* sender, gas object, budget, price and at least one command are there
Buildable(e) ==
    /\ e.hasCfg
    /\ e.budget # Zero64
    /\ e.price # Zero64
    /\ e.gas # <<>>
    /\ e.cmds # <<>>
    /\ \A i \in 1..Len(e.args) : e.args[i].kind = "nested" => NestedInRange(e, e.args[i])

EncodeArg(a) ==
    CASE a.kind = "gas" -> <<1>>
      [] a.kind = "pure" -> <<2, Len(a.bytes)>> \o a.bytes
      [] a.kind = "nested" -> <<3, a.base[1] % 256, a.sub[1] % 256>>
      [] a.kind = "object" -> <<5, Code(a.ref.id), a.ref.version[1] % 256>>
      [] OTHER -> <<4, a.cmd>>

\* the tag byte of a command kind
KindTag(kind) ==
    CASE kind = "SplitCoins" -> 1
      [] kind = "TransferObjects" -> 2
      [] kind = "MergeCoins" -> 3
      [] kind = "MakeMoveVec" -> 4
      [] kind = "Upgrade" -> 6
      [] OTHER -> 5

\* one argument of a Move call: an argument of the table, or a literal
EncodeCallArg(j) == IF j.id # <<>> THEN <<1, j.id[1][1] % 256>> ELSE <<2>> \o j.pure_bcs

EncodeCmd(c) ==
    <<KindTag(c.kind), c.coin[1] % 256, Len(c.list)>>
        \o [i \in 1..Len(c.list) |-> c.list[i][1] % 256]
        \o <<Len(c.tag), Len(c.call)>>
        \o Flatten([i \in 1..Len(c.call) |-> EncodeCallArg(c.call[i])])

\* the encoded transaction
Serialize(e) ==
    <<Code(e.sender)>> \o LE8(e.budget) \o LE8(e.price)
        \o <<Len(e.gas)>>
        \o Flatten([i \in 1..Len(e.gas) |->
                       <<Code(e.gas[i].id), e.gas[i].version[1] % 256, Code(e.gas[i].digest)>>])
        \o <<Len(e.args)>> \o Flatten([i \in 1..Len(e.args) |-> EncodeArg(e.args[i])])
        \o <<Len(e.cmds)>> \o Flatten([i \in 1..Len(e.cmds) |-> EncodeCmd(e.cmds[i])])

\* the buffer build_transaction hands back: 4-byte little-endian length, then the payload
Frame(payload) == LE4(Len(payload)) \o payload

\* where the engine puts the buffer of the builder behind handle h (never 0)
BufPtr(h) == N64(1024 + h)

\* build_transaction: the builder is consumed whether or not it can be built
\* ("consumed": a transaction was built of it; "refused": none was)
build_transaction(e, h) ==
    IF Buildable(e)
    THEN [e |-> [UnusedEngine EXCEPT !.st = "consumed"], raw |-> BufPtr(h),
          buf |-> Frame(Serialize(e))]
    ELSE [e |-> [UnusedEngine EXCEPT !.st = "refused"], raw |-> Zero64, buf |-> <<>>]

free_builder(e) == [e |-> [UnusedEngine EXCEPT !.st = "freed"], raw |-> Zero64]

\* the engine function fn applied to the live builder e
Engine(fn, e, h, arg) ==
    CASE fn = "set_config" -> set_config(e, arg)
      [] fn = "add_gas_object" -> add_gas_object(e, arg)
      [] fn = "gas_argument" -> gas_argument(e)
      [] fn = "input_object" -> input_object(e, arg)
      [] fn = "pure_u64" -> pure_u64(e, arg)
      [] fn = "pure_address" -> pure_address(e, arg)
      [] fn = "nested_result" -> nested_result(e, arg[1], arg[2])
      [] fn = "command_split_coins" -> command_split_coins(e, arg[1], arg[2])
      [] fn = "command_move_call" -> command_move_call(e, arg)
      [] fn = "command_make_move_vec" -> command_make_move_vec(e, arg[1], arg[2])
      [] fn = "command_upgrade" -> command_upgrade(e, arg)
      [] fn = "command_merge_coins" -> command_merge_coins(e, arg[1], arg[2])
      [] fn = "command_transfer_objects" -> command_transfer_objects(e, arg[1], arg[2])
      [] fn = "build_transaction" -> build_transaction(e, h)
      [] OTHER -> free_builder(e)

\* what a call on a handle the engine does not hold (0, freed, consumed) may return
UBRaw == {Raw(1), Raw(0), Raw(-1)}

\* callFn(ctx, mod, fn, p, ...): every outcome the call can have.  On a live handle
\* the engine function runs.  On any other handle the engine reads memory that
\* holds no builder: it may return anything or trap (callFn then panics).
Outcomes(fn, p, arg) ==
    IF Live(p)
    THEN LET h == Small(p)
             r == Engine(fn, eng[h], h, arg)
         IN  {[eng |-> [eng EXCEPT ![h] = r.e], raw |-> r.raw, trap |-> FALSE,
               buf |-> IF fn = "build_transaction" THEN r.buf ELSE <<>>]}
    ELSE {[eng |-> eng, raw |-> x, trap |-> FALSE, buf |-> Frame(<<255>>)] : x \in UBRaw}
            \cup {[eng |-> eng, raw |-> Zero64, trap |-> TRUE, buf |-> <<>>]}

\* the bookkeeping of one engine call with handle p
Logged(fn, p) ==
    /\ zeroCalls' = IF p = Zero64 THEN zeroCalls \cup {fn} ELSE zeroCalls
    /\ hist' = IF fn \in {"free_builder", "build_transaction"} /\ Small(p) \in Handles
               THEN [hist EXCEPT ![Small(p)] = Append(@, fn)]
               ELSE hist

(***************************************************************************)
(* builder.go: the Go Builder.  Builder b is the b-th Builder object       *)
(* created; ptr[b] is its handle field.                                    *)
(***************************************************************************)
\* p: the handle the builder held when the call was made
Returned(op, b, id, err, code, ev) ==
    [op |-> op, b |-> b, p |-> IF b \in DOMAIN ptr THEN ptr[b] ELSE Zero64,
     id |-> id, bytes |-> <<>>, nil |-> TRUE, err |-> err, code |-> code, ev |-> ev]

NoRet == Returned("", 0, Zero64, "", 0, <<>>)

\* callFn panicked inside op
Panic(op, b) == Returned(op, b, Zero64, "panic", 0, <<>>)

\* callFn(b.ctx, b.mod, fn, p, ...) with outcome o
CallFn(fn, p, o) ==
    /\ eng' = o.eng
    /\ Logged(fn, p)
    /\ panicked' = o.trap

NewBuilder(b) ==
    /\ b = Len(ptr) + 1
    /\ b \in Handles
    /\ ptr' = Append(ptr, N64(b))
    /\ eng' = [eng EXCEPT ![b] = NewEngine]
    /\ ret' = Returned("NewBuilder", b, N64(b), "", 0, <<"new_builder">>)
    /\ UNCHANGED <<hist, zeroCalls, panicked>>

\* Free that leaves the handle in the builder
Free_KeepsHandle(b) ==
    IF ptr[b] # Zero64
    THEN \E o \in Outcomes("free_builder", ptr[b], <<>>) :
            /\ CallFn("free_builder", ptr[b], o)
            /\ ptr' = ptr
            /\ ret' = IF o.trap THEN Panic("Free", b)
                      ELSE Returned("Free", b, Zero64, "", 0, <<"free_builder">>)
    ELSE /\ ret' = Returned("Free", b, Zero64, "", 0, <<>>)
         /\ UNCHANGED <<ptr, eng, hist, zeroCalls, panicked>>

\* Free without the test of the handle
Free_Unguarded(b) ==
    \E o \in Outcomes("free_builder", ptr[b], <<>>) :
        /\ CallFn("free_builder", ptr[b], o)
        /\ ptr' = IF o.trap THEN ptr ELSE [ptr EXCEPT ![b] = Zero64]
        /\ ret' = IF o.trap THEN Panic("Free", b)
                  ELSE Returned("Free", b, Zero64, "", 0, <<"free_builder">>)

Free(b) ==
    IF ptr[b] # Zero64
    THEN \E o \in Outcomes("free_builder", ptr[b], <<>>) :
            /\ CallFn("free_builder", ptr[b], o)
            /\ ptr' = IF o.trap THEN ptr ELSE [ptr EXCEPT ![b] = Zero64]
            /\ ret' = IF o.trap THEN Panic("Free", b)
                      ELSE Returned("Free", b, Zero64, "", 0, <<"free_builder">>)
    ELSE /\ ret' = Returned("Free", b, Zero64, "", 0, <<>>)
         /\ UNCHANGED <<ptr, eng, hist, zeroCalls, panicked>>

\* a method returning error that takes every status that is not negative for success
StatusResult_NegativeIsError(op, b, o, fn, msg) ==
    IF o.trap THEN Panic(op, b)
    ELSE LET code == Int32(o.raw) IN
         Returned(op, b, Zero64, IF code < 0 THEN msg ELSE "", code, <<"alloc", fn, "dealloc">>)

\* a method returning error: nil exactly when the int32 status is 1
StatusResult(op, b, o, fn, msg) ==
    IF o.trap THEN Panic(op, b)
    ELSE LET code == Int32(o.raw) IN
         Returned(op, b, Zero64, IF code # 1 THEN msg ELSE "", code, <<"alloc", fn, "dealloc">>)

\* a method returning (uint64, error) that hands on whatever the engine returned
IdResult_NoSignCheck(op, b, o, ev, msg) ==
    IF o.trap THEN Panic(op, b) ELSE Returned(op, b, o.raw, "", 0, ev)

\* a method returning (uint64, error): an error exactly when the int64 result is negative
IdResult(op, b, o, ev, msg) ==
    IF o.trap THEN Panic(op, b)
    ELSE IF Neg64(o.raw) THEN Returned(op, b, Zero64, msg, Int32(o.raw), ev)
    ELSE Returned(op, b, o.raw, "", 0, ev)

\* a method returning the engine's uint64 as it is
RawResult(op, b, o, ev) ==
    IF o.trap THEN Panic(op, b) ELSE Returned(op, b, o.raw, "", 0, ev)

\* what SetConfig returns when the set_config call had the outcome o
SetConfigResult(b, o) == StatusResult("SetConfig", b, o, "set_config", "set_config failed")

SetConfig(b, sender, gasBudget, gasPrice) ==
    \E o \in Outcomes("set_config", ptr[b],
                      [sender |-> sender, gas_budget |-> gasBudget, gas_price |-> gasPrice]) :
        /\ CallFn("set_config", ptr[b], o)
        /\ ret' = SetConfigResult(b, o)
        /\ UNCHANGED ptr

\* what AddGasObject returns when the add_gas_object call had the outcome o: the error
\* for status -2 quotes the digest
AddGasObjectResult(b, o, digest) ==
    LET r == StatusResult("AddGasObject", b, o, "add_gas_object", "add_gas_object failed")
    IN  IF ~o.trap /\ r.code = -2
        THEN [r EXCEPT !.err = "add_gas_object: invalid digest " \o digest]
        ELSE r

AddGasObject(b, id, version, digest) ==
    \E o \in Outcomes("add_gas_object", ptr[b],
                      [id |-> id, version |-> version, digest |-> digest]) :
        /\ CallFn("add_gas_object", ptr[b], o)
        /\ ret' = AddGasObjectResult(b, o, digest)
        /\ UNCHANGED ptr

GasArgument(b) ==
    \E o \in Outcomes("gas_argument", ptr[b], <<>>) :
        /\ CallFn("gas_argument", ptr[b], o)
        /\ ret' = RawResult("GasArgument", b, o, <<"gas_argument">>)
        /\ UNCHANGED ptr

ObjectKindOwned == "owned"
ObjectKindImmutable == "immutable"
ObjectKindReceiving == "receiving"
ObjectKindShared == "shared"

\* InputObject that leaves the digest out of the payload for every kind
InputObject_NoDigest(b, id, version, digest, kind, mutable) ==
    \E o \in Outcomes("input_object", ptr[b],
                      [id |-> id, version |-> version, kind |-> kind,
                       mutable |-> <<mutable>>, digest |-> <<>>]) :
        /\ CallFn("input_object", ptr[b], o)
        /\ ret' = IdResult("InputObject", b, o, <<"alloc", "input_object", "dealloc">>,
                           "input_object failed")
        /\ UNCHANGED ptr

\* the payload has "mutable" for a shared object and "digest" for every other kind
InputObject(b, id, version, digest, kind, mutable) ==
    LET m == [id |-> id, version |-> version, kind |-> kind,
              mutable |-> IF kind = ObjectKindShared THEN <<mutable>> ELSE <<>>,
              digest |-> IF kind = ObjectKindShared THEN <<>> ELSE <<digest>>]
    IN  \E o \in Outcomes("input_object", ptr[b], m) :
            /\ CallFn("input_object", ptr[b], o)
            /\ ret' = IdResult("InputObject", b, o, <<"alloc", "input_object", "dealloc">>,
                               "input_object failed")
            /\ UNCHANGED ptr

PureU64(b, v) ==
    \E o \in Outcomes("pure_u64", ptr[b], v) :
        /\ CallFn("pure_u64", ptr[b], o)
        /\ ret' = RawResult("PureU64", b, o, <<"pure_u64">>)
        /\ UNCHANGED ptr

PureAddress(b, addr) ==
    \E o \in Outcomes("pure_address", ptr[b], addr) :
        /\ CallFn("pure_address", ptr[b], o)
        /\ ret' = IdResult("PureAddress", b, o, <<"alloc", "pure_address", "dealloc">>,
                           "pure_address: invalid address")
        /\ UNCHANGED ptr

\* NestedResult that looks the base command up and reports a sub-index it does not have
NestedResult_RangeChecked(b, baseID, subIndex) ==
    IF Live(ptr[b])
       /\ ~NestedInRange(eng[Small(ptr[b])], [kind |-> "nested", base |-> baseID,
                                              sub |-> subIndex])
    THEN /\ ret' = Returned("NestedResult", b, Zero64, "nested_result: out of range", 0,
                            <<"nested_result">>)
         /\ UNCHANGED <<ptr, eng, hist, zeroCalls, panicked>>
    ELSE \E o \in Outcomes("nested_result", ptr[b], <<baseID, subIndex>>) :
            /\ CallFn("nested_result", ptr[b], o)
            /\ ret' = RawResult("NestedResult", b, o, <<"nested_result">>)
            /\ UNCHANGED ptr

NestedResult(b, baseID, subIndex) ==
    \E o \in Outcomes("nested_result", ptr[b], <<baseID, subIndex>>) :
        /\ CallFn("nested_result", ptr[b], o)
        /\ ret' = RawResult("NestedResult", b, o, <<"nested_result">>)
        /\ UNCHANGED ptr

\* MoveCallArg: ArgID is a pointer (<<>> is nil, <<id>> points to id), PureBCS a byte slice
ArgID(id) == [ArgID |-> <<id>>, PureBCS |-> <<>>]
ArgBCS(bcs) == [ArgID |-> <<>>, PureBCS |-> bcs]

\* the callArgJSON MoveCall makes of one MoveCallArg; a nil ID and an empty pure_bcs
\* are left out of the JSON object (omitempty)
callArgJSON(a) ==
    IF a.ArgID # <<>> THEN [id |-> a.ArgID, pure_bcs |-> <<>>]
    ELSE [id |-> <<>>, pure_bcs |-> a.PureBCS]

MoveCall(b, pkg, module, function, typeArgs, args) ==
    LET jsonArgs == [i \in 1..Len(args) |-> callArgJSON(args[i])]
        payload == [package |-> pkg, module |-> module, function |-> function,
                    type_args |-> typeArgs, arguments |-> jsonArgs]
    IN  \E o \in Outcomes("command_move_call", ptr[b], payload) :
            /\ CallFn("command_move_call", ptr[b], o)
            /\ ret' = IdResult("MoveCall", b, o, <<"alloc", "command_move_call", "dealloc">>,
                               "command_move_call failed")
            /\ UNCHANGED ptr

\* SplitCoins that hands an empty amounts list on to the engine
SplitCoins_NoEmptyCheck(b, coinArgID, amountArgIDs) ==
    \E o \in Outcomes("command_split_coins", ptr[b], <<coinArgID, amountArgIDs>>) :
        /\ CallFn("command_split_coins", ptr[b], o)
        /\ ret' = IdResult("SplitCoins", b, o, <<"alloc", "command_split_coins", "dealloc">>,
                           "command_split_coins failed")
        /\ UNCHANGED ptr

SplitCoins(b, coinArgID, amountArgIDs) ==
    IF Len(amountArgIDs) = 0
    THEN /\ ret' = Returned("SplitCoins", b, Zero64,
                            "SplitCoins: at least one amount required", 0, <<>>)
         /\ UNCHANGED <<ptr, eng, hist, zeroCalls, panicked>>
    ELSE \E o \in Outcomes("command_split_coins", ptr[b], <<coinArgID, amountArgIDs>>) :
            /\ CallFn("command_split_coins", ptr[b], o)
            /\ ret' = IdResult("SplitCoins", b, o,
                               <<"alloc", "command_split_coins", "dealloc">>,
                               "command_split_coins failed")
            /\ UNCHANGED ptr

\* what MergeCoins returns when the command_merge_coins call had the outcome o
MergeCoinsResult(b, o) ==
    StatusResult("MergeCoins", b, o, "command_merge_coins", "command_merge_coins failed")

MergeCoins(b, targetCoinArgID, sourceArgIDs) ==
    IF Len(sourceArgIDs) = 0
    THEN /\ ret' = Returned("MergeCoins", b, Zero64,
                            "MergeCoins: at least one source required", 0, <<>>)
         /\ UNCHANGED <<ptr, eng, hist, zeroCalls, panicked>>
    ELSE \E o \in Outcomes("command_merge_coins", ptr[b], <<targetCoinArgID, sourceArgIDs>>) :
            /\ CallFn("command_merge_coins", ptr[b], o)
            /\ ret' = MergeCoinsResult(b, o)
            /\ UNCHANGED ptr

\* what TransferObjects returns when the command_transfer_objects call had the outcome o
TransferObjectsResult(b, o) ==
    StatusResult("TransferObjects", b, o, "command_transfer_objects",
                 "command_transfer_objects failed")

TransferObjects(b, objectArgIDs, recipientArgID) ==
    IF Len(objectArgIDs) = 0
    THEN /\ ret' = Returned("TransferObjects", b, Zero64,
                            "TransferObjects: at least one object required", 0, <<>>)
         /\ UNCHANGED <<ptr, eng, hist, zeroCalls, panicked>>
    ELSE \E o \in Outcomes("command_transfer_objects", ptr[b],
                           <<objectArgIDs, recipientArgID>>) :
            /\ CallFn("command_transfer_objects", ptr[b], o)
            /\ ret' = TransferObjectsResult(b, o)
            /\ UNCHANGED ptr

MakeMoveVec(b, typeTag, elemArgIDs) ==
    \E o \in Outcomes("command_make_move_vec", ptr[b], <<typeTag, elemArgIDs>>) :
        /\ CallFn("command_make_move_vec", ptr[b], o)
        /\ ret' = IdResult("MakeMoveVec", b, o,
                           IF typeTag = "" /\ elemArgIDs = <<>>
                           THEN <<"command_make_move_vec">>
                           ELSE <<"alloc", "command_make_move_vec", "dealloc">>,
                           "command_make_move_vec failed")
        /\ UNCHANGED ptr

Upgrade(b, modules, dependencies, packageID, ticketArgID) ==
    \E o \in Outcomes("command_upgrade", ptr[b],
                      [modules |-> modules, dependencies |-> dependencies,
                       package |-> packageID, ticket_arg_id |-> ticketArgID]) :
        /\ CallFn("command_upgrade", ptr[b], o)
        /\ ret' = IdResult("Upgrade", b, o, <<"alloc", "command_upgrade", "dealloc">>,
                           "command_upgrade failed")
        /\ UNCHANGED ptr

\* what Memory().Read gives for the buffer the engine returned.  Read returns a view of
\* the module's memory, and Build copies the payload out of the view after free_bytes
\* has run: the view then shows freed memory, as it was ("ok") or with the allocator's
\* bookkeeping written into it ("clobbered")
MemOutcomes == {"ok", "nolen", "nopayload", "clobbered"}

\* freed bytes after the allocator has linked the block into its free list
Clobbered(bytes) == [i \in 1..Len(bytes) |-> IF i <= 4 THEN 0 ELSE bytes[i]]

\* BuildResult without the test for a null buffer handle
BuildResult_NoNullCheck(b, o, m) ==
    LET base == Returned("Build", b, o.raw, "", 0, <<"build_transaction">>)
    IN  IF m = "ok" /\ Len(o.buf) >= 4
        THEN [base EXCEPT !.bytes = SubSeq(o.buf, 5, 4 + Uint32LE(SubSeq(o.buf, 1, 4))),
                          !.nil = FALSE,
                          !.ev = <<"build_transaction", "read_len", "read_payload",
                                   "free_bytes">>]
        ELSE [base EXCEPT !.err = "build_transaction: failed to read length prefix",
                          !.ev = <<"build_transaction", "read_len", "free_bytes">>]

\* Build after build_transaction returned o.raw, with the buffer readable as m says
BuildResult(b, o, m) ==
    LET resPtr == Uint32(o.raw)
        dataLen == Uint32LE(SubSeq(o.buf, 1, 4))
        base == Returned("Build", b, o.raw, "", 0, <<"build_transaction">>)
    IN  IF resPtr = <<0, 0>>
        THEN [base EXCEPT !.err = "build_transaction failed"]
        ELSE IF m = "nolen"
        THEN [base EXCEPT !.err = "build_transaction: failed to read length prefix",
                          !.ev = <<"build_transaction", "read_len", "free_bytes">>]
        ELSE IF m = "nopayload"
        THEN [base EXCEPT !.err = "build_transaction: failed to read BCS payload",
                          !.ev = <<"build_transaction", "read_len", "read_payload",
                                   "free_bytes">>]
        ELSE LET bcsData == SubSeq(o.buf, 5, 4 + dataLen)
             out == IF m = "clobbered" THEN Clobbered(bcsData) ELSE bcsData
             IN  [base EXCEPT !.bytes = out, !.nil = FALSE,
                              !.ev = <<"build_transaction", "read_len", "read_payload",
                                       "free_bytes", "copy">>]

\* Build that clears the handle only when the engine returned a buffer
Build_ClearsOnSuccess(b) ==
    \E o \in Outcomes("build_transaction", ptr[b], <<>>), m \in MemOutcomes :
        /\ CallFn("build_transaction", ptr[b], o)
        /\ ptr' = IF o.trap \/ Uint32(o.raw) = <<0, 0>> THEN ptr
                  ELSE [ptr EXCEPT ![b] = Zero64]
        /\ ret' = IF o.trap THEN Panic("Build", b) ELSE BuildResult(b, o, m)

Build(b) ==
    \E o \in Outcomes("build_transaction", ptr[b], <<>>), m \in MemOutcomes :
        /\ CallFn("build_transaction", ptr[b], o)
        /\ ptr' = IF o.trap THEN ptr ELSE [ptr EXCEPT ![b] = Zero64]
        /\ ret' = IF o.trap THEN Panic("Build", b) ELSE BuildResult(b, o, m)

(***************************************************************************)
(* A caller of the Builder API: it creates a Builder and calls any of its   *)
(* methods, in any order, with any of these arguments.  Builders share no  *)
(* Go state, so one Builder object shows what every one of them does.      *)
(***************************************************************************)
Budgets == {N64(10000000)}
Prices == {N64(1000)}
Amounts == {N64(100000000)}
Versions == {N64(7)}
ClientIds == {N64(i) : i \in 0..MaxArgs}
IdLists == {<<>>, <<N64(0)>>, <<N64(MaxArgs)>>}

TypeTags == {"", "0x2::sui::SUI"}

\* object ids, well-formed or not
AnyObjectIds == ObjectIds \cup {"xyz"}
ObjectKinds == {ObjectKindOwned, ObjectKindImmutable, ObjectKindReceiving, ObjectKindShared}

\* a MoveCallArg with both fields set, and one with neither
BothForms == [ArgID |-> <<N64(0)>>, PureBCS |-> <<7>>]
NoForm == [ArgID |-> <<>>, PureBCS |-> <<>>]
CallArgLists == {<<>>, <<ArgID(N64(0))>>, <<ArgBCS(<<7>>)>>, <<BothForms>>, <<NoForm>>}

Created == 1..Len(ptr)

\* the model's bound on the argument table and the command sequence of builder b
Room(b) ==
    Live(ptr[b]) => /\ Len(eng[Small(ptr[b])].args) < MaxArgs
                    /\ Len(eng[Small(ptr[b])].cmds) < MaxCmds

\* the blocks the module's allocator hands out (an address is never 0)
Blocks == {1, 2}

\* the module memory after instantiation: no block is in use
FreshMemory == [used |-> {}, data |-> [k \in Blocks |-> ""]]

InitBuilders ==
    /\ ptr = <<>>
    /\ eng = [h \in Handles |-> UnusedEngine]
    /\ hist = [h \in Handles |-> <<>>]
    /\ zeroCalls = {}
    /\ ret = NoRet
    /\ panicked = FALSE
    /\ mem = FreshMemory

\* the local variables of SignExecuteTx and of the buildTx it is running
NoLocals ==
    [b |-> 0, gasArg |-> Zero64, amt |-> Zero64, res |-> Zero64, coin |-> Zero64,
     rec |-> Zero64, simBytes |-> <<>>, simResp |-> <<>>, optimalBudget |-> Zero64,
     execBytes |-> <<>>, signed |-> <<>>, txBytesRaw |-> <<>>, signatureRaw |-> <<>>,
     resp |-> "", err |-> <<>>]

InitIdle ==
    /\ split = [Sender |-> "", Recipient |-> "", Gasbudget |-> Zero64, Gasprice |-> Zero64,
                Amount |-> Zero64, GasCoin |-> [id |-> "", version |-> Zero64, digest |-> ""]]
    /\ pc = "idle"
    /\ bpc = "idle"
    /\ loc = NoLocals
    /\ trace = <<>>
    /\ rpc = <<>>
    /\ calls = <<>>

Init == InitBuilders /\ InitIdle /\ gor = <<>>

CNewBuilder == ~panicked /\ NewBuilder(1) /\ UNCHANGED <<pvars, cvars>>
CFree == ~panicked /\ (\E b \in Created : Free(b)) /\ UNCHANGED <<pvars, cvars>>
CSetConfig ==
    /\ ~panicked
    /\ \E b \in Created, s \in Addresses, g \in Budgets, p \in Prices : SetConfig(b, s, g, p)
    /\ UNCHANGED <<pvars, cvars>>
CAddGasObject ==
    /\ ~panicked
    /\ \E b \in Created, i \in ObjectIds, v \in Versions, d \in Digests :
        Room(b) /\ Len(eng[b].gas) < 1 /\ AddGasObject(b, i, v, d)
    /\ UNCHANGED <<pvars, cvars>>
\* a builder that has its gas argument: asking for it again needs no room
HasGasArg(b) == Live(ptr[b]) /\ eng[Small(ptr[b])].gasArg >= 0

CGasArgument ==
    /\ ~panicked
    /\ \E b \in Created : (Room(b) \/ HasGasArg(b)) /\ GasArgument(b)
    /\ UNCHANGED <<pvars, cvars>>
CInputObject ==
    /\ ~panicked
    /\ \E b \in Created, i \in AnyObjectIds, v \in Versions, d \in Digests,
           k \in ObjectKinds, m \in BOOLEAN :
        Room(b) /\ InputObject(b, i, v, d, k, m)
    /\ UNCHANGED <<pvars, cvars>>
CPureU64 ==
    /\ ~panicked
    /\ \E b \in Created, v \in Amounts : Room(b) /\ PureU64(b, v)
    /\ UNCHANGED <<pvars, cvars>>
CPureAddress ==
    /\ ~panicked
    /\ \E b \in Created, a \in Addresses : Room(b) /\ PureAddress(b, a)
    /\ UNCHANGED <<pvars, cvars>>
CNestedResult ==
    /\ ~panicked
    /\ \E b \in Created, x \in ClientIds, i \in {N64(0), N64(1)} :
        Room(b) /\ NestedResult(b, x, i)
    /\ UNCHANGED <<pvars, cvars>>
CSplitCoins ==
    /\ ~panicked
    /\ \E b \in Created, c \in ClientIds, l \in IdLists : Room(b) /\ SplitCoins(b, c, l)
    /\ UNCHANGED <<pvars, cvars>>
CMergeCoins ==
    /\ ~panicked
    /\ \E b \in Created, t \in ClientIds, l \in IdLists : Room(b) /\ MergeCoins(b, t, l)
    /\ UNCHANGED <<pvars, cvars>>
CMakeMoveVec ==
    /\ ~panicked
    /\ \E b \in Created, t \in TypeTags, l \in IdLists : Room(b) /\ MakeMoveVec(b, t, l)
    /\ UNCHANGED <<pvars, cvars>>
CMoveCall ==
    /\ ~panicked
    /\ \E b \in Created, a \in CallArgLists :
        Room(b) /\ MoveCall(b, "0x2", "coin", "value", <<>>, a)
    /\ UNCHANGED <<pvars, cvars>>
CUpgrade ==
    /\ ~panicked
    /\ \E b \in Created, t \in ClientIds :
        Room(b) /\ Upgrade(b, <<<<1>>>>, <<"0x2">>, "0xC", t)
    /\ UNCHANGED <<pvars, cvars>>
CTransferObjects ==
    /\ ~panicked
    /\ \E b \in Created, l \in IdLists, r \in ClientIds : Room(b) /\ TransferObjects(b, l, r)
    /\ UNCHANGED <<pvars, cvars>>
CBuild == ~panicked /\ (\E b \in Created : Build(b)) /\ UNCHANGED <<pvars, cvars>>

Next ==
    \/ CNewBuilder
    \/ CFree
    \/ CSetConfig
    \/ CAddGasObject
    \/ CGasArgument
    \/ CPureU64
    \/ CPureAddress
    \/ CNestedResult
    \/ CSplitCoins
    \/ CTransferObjects
    \/ CBuild

Spec == Init /\ [][Next]_vars

(***************************************************************************)
(* A caller that fills the argument table of a Draft builder and issues    *)
(* commands of every kind on it.                                           *)
(***************************************************************************)
NextCommands ==
    \/ CNewBuilder
    \/ CGasArgument
    \/ CPureU64
    \/ CNestedResult
    \/ CSplitCoins
    \/ CMergeCoins
    \/ CTransferObjects
    \/ CMakeMoveVec
    \/ CMoveCall
    \/ CUpgrade

SpecCommands == Init /\ [][NextCommands]_vars

(***************************************************************************)
(* A caller that fills the argument table of a Draft builder with object   *)
(* inputs, pure values and the gas argument.                               *)
(***************************************************************************)
NextInputs ==
    \/ CNewBuilder
    \/ CInputObject
    \/ CPureAddress
    \/ CPureU64
    \/ CGasArgument

SpecInputs == Init /\ [][NextInputs]_vars

(***************************************************************************)
(* sui.go: EstimateGasBudget and the signature check.                      *)
(***************************************************************************)
\* the error values of the pipeline: <<>> is nil, otherwise message and detail
Nil == <<>>
ErrOf(r) == IF r.err = "" THEN Nil ELSE <<r.err, r.code>>

\* a - b on uint64 (wraps around)
Sub64(a, b) ==
    Add64(a, Add64(<<Limb - 1 - b[1], Limb - 1 - b[2], Limb - 1 - b[3], Limb - 1 - b[4]>>,
                   N64(1)))

\* EstimateGasBudget that takes the storage rebate off the cost
EstimateGasBudget_LessRebate(resp) ==
    IF ~resp.success
    THEN [budget |-> Zero64, err |-> <<"simulation failed", resp.error>>]
    ELSE LET net == Sub64(Add64(resp.computationCost, resp.storageCost), resp.storageRebate)
         IN  [budget |-> Add64(net, Div10(net)), err |-> Nil]

\* EstimateGasBudget that does not look at the status of the effects
EstimateGasBudget_NoStatusCheck(resp) ==
    LET estimatedCost == Add64(resp.computationCost, resp.storageCost)
    IN  [budget |-> Add64(estimatedCost, Div10(estimatedCost)), err |-> Nil]

EstimateGasBudget(resp) ==
    IF ~resp.success
    THEN [budget |-> Zero64, err |-> <<"simulation failed", resp.error>>]
    ELSE LET estimatedCost == Add64(resp.computationCost, resp.storageCost)
             buffer == Div10(estimatedCost)
         IN  [budget |-> Add64(estimatedCost, buffer), err |-> Nil]

\* schemeMap with an entry for every flag byte
schemeMap_AnyFlag(flagByte) ==
    CASE flagByte = 1 -> "SECP256K1"
      [] flagByte = 2 -> "SECP256R1"
      [] OTHER -> "ED25519"

\* schemeMap
schemeMap(flagByte) ==
    CASE flagByte = 0 -> "ED25519"
      [] flagByte = 1 -> "SECP256K1"
      [] flagByte = 2 -> "SECP256R1"
      [] OTHER -> ""

\* SignExecuteTransaction that cuts the signature one byte too early
SignatureCheck_KeepsFlag(txBytes, signature) ==
    IF Len(signature) # 97
    THEN [err |-> <<"invalid signature length", Len(signature)>>, req |-> <<>>]
    ELSE IF schemeMap(signature[1]) = ""
    THEN [err |-> <<"Unsupported signature scheme flag", signature[1]>>, req |-> <<>>]
    ELSE [err |-> Nil,
          req |-> [name |-> "ExecuteTransaction", bcs |-> txBytes,
                   scheme |-> schemeMap(signature[1]),
                   simple |-> [scheme |-> schemeMap(signature[1]),
                               signature |-> SubSeq(signature, 1, 64),
                               publicKey |-> SubSeq(signature, 65, 96)]]]

\* SignExecuteTransaction up to the RPC: the error it returns, or the request it sends
\* (scheme is UserSignature.Scheme, simple the SimpleSignature inside it)
SignatureCheck(txBytes, signature) ==
    IF Len(signature) # 97
    THEN [err |-> <<"invalid signature length", Len(signature)>>, req |-> <<>>]
    ELSE IF schemeMap(signature[1]) = ""
    THEN [err |-> <<"Unsupported signature scheme flag", signature[1]>>, req |-> <<>>]
    ELSE [err |-> Nil,
          req |-> [name |-> "ExecuteTransaction", bcs |-> txBytes,
                   scheme |-> schemeMap(signature[1]),
                   simple |-> [scheme |-> schemeMap(signature[1]),
                               signature |-> SubSeq(signature, 2, 65),
                               publicKey |-> SubSeq(signature, 66, 97)]]]

(***************************************************************************)
(* signer.go: SignTransaction.  Base64 strings are sequences of 6-bit      *)
(* digits, 64 standing for the padding character.                          *)
(***************************************************************************)
Pad == 64

RECURSIVE EncodeToString(_)
EncodeToString(bs) ==
    IF Len(bs) = 0 THEN <<>>
    ELSE IF Len(bs) = 1
    THEN <<bs[1] \div 4, (bs[1] % 4) * 16, Pad, Pad>>
    ELSE IF Len(bs) = 2
    THEN <<bs[1] \div 4, (bs[1] % 4) * 16 + bs[2] \div 16, (bs[2] % 16) * 4, Pad>>
    ELSE <<bs[1] \div 4, (bs[1] % 4) * 16 + bs[2] \div 16,
           (bs[2] % 16) * 4 + bs[3] \div 64, bs[3] % 64>>
            \o EncodeToString(SubSeq(bs, 4, Len(bs)))

RECURSIVE DecodeString(_)
DecodeString(cs) ==
    IF Len(cs) = 0 THEN [ok |-> TRUE, bytes |-> <<>>]
    ELSE IF Len(cs) < 4 \/ cs[1] = Pad \/ cs[2] = Pad
    THEN [ok |-> FALSE, bytes |-> <<>>]
    ELSE IF cs[3] = Pad
    THEN [ok |-> Len(cs) = 4 /\ cs[4] = Pad /\ cs[2] % 16 = 0,
          bytes |-> <<cs[1] * 4 + cs[2] \div 16>>]
    ELSE IF cs[4] = Pad
    THEN [ok |-> Len(cs) = 4 /\ cs[3] % 4 = 0,
          bytes |-> <<cs[1] * 4 + cs[2] \div 16, (cs[2] % 16) * 16 + cs[3] \div 4>>]
    ELSE LET rest == DecodeString(SubSeq(cs, 5, Len(cs)))
         IN  [ok |-> rest.ok,
              bytes |-> <<cs[1] * 4 + cs[2] \div 16, (cs[2] % 16) * 16 + cs[3] \div 4,
                          (cs[3] % 4) * 64 + cs[4]>> \o rest.bytes]

\* the accounts: an Ed25519 private key each
Accounts == {5}

RECURSIVE Sum(_)
Sum(bs) == IF bs = <<>> THEN 0 ELSE (Head(bs) + 31 * Sum(Tail(bs))) % 251

\* the digest of the intent message: <<0, 0, 0>> before the transaction bytes
IntentDigest(raw) == Sum(<<0, 0, 0>> \o raw)

\* TxnMetaData.SignSerializedSigWith: flag 0x00, 64 signature bytes, 32 public key bytes
SignSerializedSigWith(txBytes, priKey) ==
    LET raw == DecodeString(txBytes).bytes
        d == IntentDigest(raw)
        sig == [i \in 1..64 |-> (d + priKey * i) % 256]
        pub == [i \in 1..32 |-> (priKey + i) % 256]
    IN  [TxBytes |-> txBytes, Signature |-> EncodeToString(<<0>> \o sig \o pub)]

\* SignTransaction that fills the two fields of SignedTx the wrong way round
SignTransaction_SwapsFields(rawBCS, account) ==
    LET signed == SignSerializedSigWith(EncodeToString(rawBCS), account)
    IN  [TxBytes |-> signed.Signature, Signature |-> signed.TxBytes]

SignTransaction(rawBCS, account) ==
    LET signed == SignSerializedSigWith(EncodeToString(rawBCS), account)
    IN  [TxBytes |-> signed.TxBytes, Signature |-> signed.Signature]

(***************************************************************************)
(* sui.go: SplitCoin.buildTx and SplitCoin.SignExecuteTx, one action per   *)
(* call they make.  The k-th buildTx works on builder k.                   *)
(***************************************************************************)
\* one call in the pipeline's trace: buildTx number k (0: made by SignExecuteTx itself)
Entry(k, op, in, err) == [k |-> k, op |-> op, in |-> in, err |-> err]

\* buildTx returns (bytes, err) to SignExecuteTx, which stops on an error, simulates
\* after the first build and signs after the second
BuildTxReturn(bytes, err) ==
    /\ bpc' = "idle"
    /\ IF err # Nil
       THEN pc' = "done" /\ loc' = [loc EXCEPT !.err = err]
       ELSE IF pc = "build1"
       THEN pc' = "simulate" /\ loc' = [loc EXCEPT !.simBytes = bytes]
       ELSE pc' = "sign" /\ loc' = [loc EXCEPT !.execBytes = bytes]

\* buildTx goes on to its next call
BuildTxStep(next, l) ==
    /\ bpc' = next
    /\ loc' = l
    /\ pc' = pc

\* buildTx that makes a builder for the draft and uses it again for the rebuild
P_NewBuilder_Reuses ==
    /\ pc \in {"build1", "build2"}
    /\ bpc = "NewBuilder"
    /\ IF ptr = <<>> THEN NewBuilder(1) ELSE UNCHANGED bvars
    /\ trace' = Append(trace, Entry(1, "NewBuilder", <<>>, Nil))
    /\ BuildTxStep("SetConfig", [loc EXCEPT !.b = 1])
    /\ UNCHANGED <<split, rpc, calls, cvars>>

\* b := NewBuilder(ctx, mod), at the start of every buildTx
P_NewBuilder ==
    /\ pc \in {"build1", "build2"}
    /\ bpc = "NewBuilder"
    /\ NewBuilder(Len(ptr) + 1)
    /\ trace' = Append(trace, Entry(Len(ptr) + 1, "NewBuilder", <<>>, Nil))
    /\ BuildTxStep("SetConfig", [loc EXCEPT !.b = Len(ptr) + 1])
    /\ UNCHANGED <<split, rpc, calls, cvars>>

P_SetConfig ==
    /\ ~panicked
    /\ bpc = "SetConfig"
    /\ SetConfig(loc.b, split.Sender, split.Gasbudget, split.Gasprice)
    /\ LET err == ErrOf(ret') IN
        /\ trace' = Append(trace, Entry(loc.b, "SetConfig",
                              <<split.Sender, split.Gasbudget, split.Gasprice>>, err))
        /\ IF err # Nil THEN BuildTxReturn(<<>>, err) ELSE BuildTxStep("AddGasObject", loc)
    /\ UNCHANGED <<split, rpc, calls, cvars>>

P_AddGasObject ==
    /\ ~panicked
    /\ bpc = "AddGasObject"
    /\ AddGasObject(loc.b, split.GasCoin.id, split.GasCoin.version, split.GasCoin.digest)
    /\ LET err == ErrOf(ret') IN
        /\ trace' = Append(trace, Entry(loc.b, "AddGasObject",
                              <<split.GasCoin.id, split.GasCoin.version, split.GasCoin.digest>>,
                              err))
        /\ IF err # Nil THEN BuildTxReturn(<<>>, err) ELSE BuildTxStep("GasArgument", loc)
    /\ UNCHANGED <<split, rpc, calls, cvars>>

P_GasArgument ==
    /\ ~panicked
    /\ bpc = "GasArgument"
    /\ GasArgument(loc.b)
    /\ trace' = Append(trace, Entry(loc.b, "GasArgument", <<>>, Nil))
    /\ BuildTxStep("PureU64", [loc EXCEPT !.gasArg = ret'.id])
    /\ UNCHANGED <<split, rpc, calls, cvars>>

P_PureU64 ==
    /\ ~panicked
    /\ bpc = "PureU64"
    /\ PureU64(loc.b, split.Amount)
    /\ trace' = Append(trace, Entry(loc.b, "PureU64", <<split.Amount>>, Nil))
    /\ BuildTxStep("SplitCoins", [loc EXCEPT !.amt = ret'.id])
    /\ UNCHANGED <<split, rpc, calls, cvars>>

\* res, _ := b.SplitCoins(gasArg, []uint64{amt})
P_SplitCoins ==
    /\ ~panicked
    /\ bpc = "SplitCoins"
    /\ SplitCoins(loc.b, loc.gasArg, <<loc.amt>>)
    /\ trace' = Append(trace, Entry(loc.b, "SplitCoins", <<loc.gasArg, <<loc.amt>>>>,
                          ErrOf(ret')))
    /\ BuildTxStep("NestedResult", [loc EXCEPT !.res = ret'.id])
    /\ UNCHANGED <<split, rpc, calls, cvars>>

P_NestedResult ==
    /\ ~panicked
    /\ bpc = "NestedResult"
    /\ NestedResult(loc.b, loc.res, N64(0))
    /\ trace' = Append(trace, Entry(loc.b, "NestedResult", <<loc.res, N64(0)>>, Nil))
    /\ BuildTxStep("PureAddress", [loc EXCEPT !.coin = ret'.id])
    /\ UNCHANGED <<split, rpc, calls, cvars>>

\* rec, _ := b.PureAddress(split.Recipient)
P_PureAddress ==
    /\ ~panicked
    /\ bpc = "PureAddress"
    /\ PureAddress(loc.b, split.Recipient)
    /\ trace' = Append(trace, Entry(loc.b, "PureAddress", <<split.Recipient>>, ErrOf(ret')))
    /\ BuildTxStep("TransferObjects", [loc EXCEPT !.rec = ret'.id])
    /\ UNCHANGED <<split, rpc, calls, cvars>>

\* b.TransferObjects([]uint64{coin}, rec): the error is dropped
P_TransferObjects ==
    /\ ~panicked
    /\ bpc = "TransferObjects"
    /\ TransferObjects(loc.b, <<loc.coin>>, loc.rec)
    /\ trace' = Append(trace, Entry(loc.b, "TransferObjects", <<<<loc.coin>>, loc.rec>>,
                          ErrOf(ret')))
    /\ BuildTxStep("Build", loc)
    /\ UNCHANGED <<split, rpc, calls, cvars>>

\* return b.Build()
P_Build ==
    /\ ~panicked
    /\ bpc = "Build"
    /\ Build(loc.b)
    /\ trace' = Append(trace, Entry(loc.b, "Build", <<>>, ErrOf(ret')))
    /\ BuildTxReturn(ret'.bytes, ErrOf(ret'))
    /\ UNCHANGED <<split, rpc, calls, cvars>>

\* what the ledger may answer to SimulateTransaction
SimResponses ==
    [success : BOOLEAN, error : {"InsufficientGas"},
     computationCost : {N64(2700000), N64(9), Max64},
     storageCost : {N64(270000), N64(1)},
     storageRebate : {Zero64, N64(5000)}]

\* SignExecuteTx that calls SimulateTransaction once more after an RPC error
P_Simulate_Retries ==
    /\ pc = "simulate"
    /\ rpc' = Append(rpc, [name |-> "SimulateTransaction", bcs |-> loc.simBytes])
    /\ \/ /\ pc' = IF rpc = <<>> THEN "simulate" ELSE "done"
          /\ loc' = [loc EXCEPT !.err = <<"rpc error", "SimulateTransaction">>]
          /\ trace' = Append(trace, Entry(0, "SimulateTransaction", <<loc.simBytes>>,
                                <<"rpc error", "SimulateTransaction">>))
       \/ \E resp \in SimResponses :
            /\ pc' = "estimate"
            /\ loc' = [loc EXCEPT !.simResp = resp]
            /\ trace' = Append(trace, Entry(0, "SimulateTransaction", <<loc.simBytes>>, Nil))
    /\ UNCHANGED <<bvars, split, bpc, calls, cvars>>

\* simResp, err := SimulateTransaction(conn, simBytes, ctx)
P_Simulate ==
    /\ pc = "simulate"
    /\ rpc' = Append(rpc, [name |-> "SimulateTransaction", bcs |-> loc.simBytes])
    /\ \/ /\ pc' = "done"
          /\ loc' = [loc EXCEPT !.err = <<"rpc error", "SimulateTransaction">>]
          /\ trace' = Append(trace, Entry(0, "SimulateTransaction", <<loc.simBytes>>,
                                <<"rpc error", "SimulateTransaction">>))
       \/ \E resp \in SimResponses :
            /\ pc' = "estimate"
            /\ loc' = [loc EXCEPT !.simResp = resp]
            /\ trace' = Append(trace, Entry(0, "SimulateTransaction", <<loc.simBytes>>, Nil))
    /\ UNCHANGED <<bvars, split, bpc, calls, cvars>>

\* SignExecuteTx that goes on with the budget of a failed estimate
P_Estimate_IgnoresError ==
    /\ pc = "estimate"
    /\ LET r == EstimateGasBudget(loc.simResp) IN
        /\ trace' = Append(trace, Entry(0, "EstimateGasBudget", <<loc.simResp>>, r.err))
        /\ pc' = "build2"
        /\ bpc' = "NewBuilder"
        /\ loc' = [loc EXCEPT !.optimalBudget = r.budget]
        /\ split' = [split EXCEPT !.Gasbudget = r.budget]
    /\ UNCHANGED <<bvars, rpc, calls, cvars>>

\* SignExecuteTx that rebuilds with the budget it was given
P_Estimate_KeepsBudget ==
    /\ pc = "estimate"
    /\ LET r == EstimateGasBudget(loc.simResp) IN
        /\ trace' = Append(trace, Entry(0, "EstimateGasBudget", <<loc.simResp>>, r.err))
        /\ IF r.err # Nil
           THEN /\ pc' = "done"
                /\ loc' = [loc EXCEPT !.err = r.err, !.optimalBudget = r.budget]
                /\ UNCHANGED <<split, bpc>>
           ELSE /\ pc' = "build2"
                /\ bpc' = "NewBuilder"
                /\ loc' = [loc EXCEPT !.optimalBudget = r.budget]
                /\ split' = split
    /\ UNCHANGED <<bvars, rpc, calls, cvars>>

\* optimalBudget, err := EstimateGasBudget(simResp); split.Gasbudget = optimalBudget
P_Estimate ==
    /\ pc = "estimate"
    /\ LET r == EstimateGasBudget(loc.simResp) IN
        /\ trace' = Append(trace, Entry(0, "EstimateGasBudget", <<loc.simResp>>, r.err))
        /\ IF r.err # Nil
           THEN /\ pc' = "done"
                /\ loc' = [loc EXCEPT !.err = r.err, !.optimalBudget = r.budget]
                /\ UNCHANGED <<split, bpc>>
           ELSE /\ pc' = "build2"
                /\ bpc' = "NewBuilder"
                /\ loc' = [loc EXCEPT !.optimalBudget = r.budget]
                /\ split' = [split EXCEPT !.Gasbudget = r.budget]
    /\ UNCHANGED <<bvars, rpc, calls, cvars>>

\* SignExecuteTx that signs the bytes of the first build
P_Sign_SignsDraft ==
    /\ pc = "sign"
    /\ \E account \in Accounts :
        /\ loc' = [loc EXCEPT !.signed = SignTransaction(loc.simBytes, account)]
        /\ trace' = Append(trace, Entry(0, "SignTransaction", <<loc.simBytes, account>>, Nil))
    /\ pc' = "decode"
    /\ UNCHANGED <<bvars, split, bpc, rpc, calls, cvars>>

\* signed, err := SignTransaction(execBytes, account): err is always nil
P_Sign ==
    /\ pc = "sign"
    /\ \E account \in Accounts :
        /\ loc' = [loc EXCEPT !.signed = SignTransaction(loc.execBytes, account)]
        /\ trace' = Append(trace, Entry(0, "SignTransaction", <<loc.execBytes, account>>, Nil))
    /\ pc' = "decode"
    /\ UNCHANGED <<bvars, split, bpc, rpc, calls, cvars>>

\* the two base64.StdEncoding.DecodeString calls
P_Decode ==
    /\ pc = "decode"
    /\ LET tx == DecodeString(loc.signed.TxBytes)
           sg == DecodeString(loc.signed.Signature)
       IN  IF ~tx.ok \/ ~sg.ok
           THEN /\ pc' = "done"
                /\ loc' = [loc EXCEPT !.err = <<"illegal base64 data", 0>>]
                /\ trace' = Append(trace, Entry(0, "DecodeString", <<>>,
                                      <<"illegal base64 data", 0>>))
           ELSE /\ pc' = "execute"
                /\ loc' = [loc EXCEPT !.txBytesRaw = tx.bytes, !.signatureRaw = sg.bytes]
                /\ trace' = Append(trace, Entry(0, "DecodeString", <<>>, Nil))
    /\ UNCHANGED <<bvars, split, bpc, rpc, calls, cvars>>

\* resp, err := SignExecuteTransaction(conn, txBytesRaw, signatureRaw, ctx)
P_Execute ==
    /\ pc = "execute"
    /\ LET c == SignatureCheck(loc.txBytesRaw, loc.signatureRaw) IN
        IF c.err # Nil
        THEN /\ loc' = [loc EXCEPT !.err = c.err]
             /\ trace' = Append(trace, Entry(0, "SignExecuteTransaction",
                                   <<loc.txBytesRaw, loc.signatureRaw>>, c.err))
             /\ rpc' = rpc
        ELSE /\ rpc' = Append(rpc, c.req)
             /\ \E e \in {Nil, <<"rpc error", "ExecuteTransaction">>} :
                  /\ loc' = [loc EXCEPT !.err = e,
                                        !.resp = IF e = Nil THEN "executed" ELSE ""]
                  /\ trace' = Append(trace, Entry(0, "SignExecuteTransaction",
                                        <<loc.txBytesRaw, loc.signatureRaw>>, e))
    /\ pc' = "done"
    /\ UNCHANGED <<bvars, split, bpc, calls, cvars>>

\* the running SignExecuteTx has issued the ExecuteTransaction RPC
Executed == \E i \in 1..Len(rpc) : rpc[i].name = "ExecuteTransaction"

\* one SignExecuteTx call: the request as it was when the call was made, and whether
\* the call submitted a transaction
Call(request, submitted) == [before |-> request, submitted |-> submitted]

\* SignExecuteTx is called once more on the same SplitCoin object, after the call before
\* has returned.  The Builders of that call were its local variables: they are out of
\* reach, and the new call gets new handles from the engine.
P_CallAgain ==
    /\ ~panicked
    /\ pc = "done"
    /\ Len(calls) < MaxRuns
    /\ calls' = Append([calls EXCEPT ![Len(calls)].submitted = Executed],
                       Call(split, FALSE))
    /\ ptr' = <<>>
    /\ eng' = [h \in Handles |-> UnusedEngine]
    /\ hist' = [h \in Handles |-> <<>>]
    /\ zeroCalls' = {}
    /\ ret' = NoRet
    /\ panicked' = FALSE
    /\ pc' = "build1"
    /\ bpc' = "NewBuilder"
    /\ loc' = NoLocals
    /\ trace' = <<>>
    /\ rpc' = <<>>
    /\ split' = split
    /\ UNCHANGED cvars

\* the requests SignExecuteTx is called on
Requests ==
    [Sender : Addresses, Recipient : Addresses, Gasbudget : Budgets, Gasprice : Prices,
     Amount : Amounts, GasCoin : [id : ObjectIds, version : Versions, digest : Digests]]

InitPipeline ==
    /\ InitBuilders
    /\ split \in Requests
    /\ pc = "build1"
    /\ bpc = "NewBuilder"
    /\ loc = NoLocals
    /\ trace = <<>>
    /\ rpc = <<>>
    /\ calls = <<Call(split, FALSE)>>
    /\ gor = <<>>

NextPipeline ==
    \/ P_NewBuilder
    \/ P_SetConfig
    \/ P_AddGasObject
    \/ P_GasArgument
    \/ P_PureU64
    \/ P_SplitCoins
    \/ P_NestedResult
    \/ P_PureAddress
    \/ P_TransferObjects
    \/ P_Build
    \/ P_Simulate
    \/ P_Estimate
    \/ P_Sign
    \/ P_Decode
    \/ P_Execute
    \/ P_CallAgain

SpecPipeline == InitPipeline /\ [][NextPipeline]_vars

(***************************************************************************)
(* A caller of SignTransaction and of SignExecuteTransaction, with any     *)
(* transaction bytes, account and signature bytes.                         *)
(***************************************************************************)
RawTxs == {<<>>, <<1>>, <<1, 2>>, <<255, 0, 128>>, <<9, 8, 7, 6>>}
AnyAccounts == Accounts \cup {250}
SigLens == {0, 96, 97, 98}
Flags == {0, 1, 2, 3}

\* signature bytes of length n that start with flag
SigBytes(n, flag) == [i \in 1..n |-> IF i = 1 THEN flag ELSE i % 256]

\* the signatures a caller may hand to SignExecuteTransaction: made up, or the one
\* SignTransaction gave it, decoded
Signatures ==
    {SigBytes(n, f) : n \in SigLens, f \in Flags}
        \cup (IF loc.signed = <<>> THEN {} ELSE {DecodeString(loc.signed.Signature).bytes})

XSignTransaction ==
    /\ Len(trace) < MaxSigned
    /\ \E rawBCS \in RawTxs, account \in AnyAccounts :
        /\ loc' = [loc EXCEPT !.execBytes = rawBCS,
                              !.signed = SignTransaction(rawBCS, account)]
        /\ trace' = Append(trace, Entry(0, "SignTransaction", <<rawBCS, account>>, Nil))
    /\ UNCHANGED <<bvars, split, pc, bpc, rpc, calls, cvars>>

XSignExecuteTransaction ==
    /\ Len(trace) < MaxSigned
    /\ \E txBytes \in {<<1, 2>>}, signature \in Signatures :
        LET c == SignatureCheck(txBytes, signature) IN
        /\ \E e \in (IF c.err # Nil THEN {c.err}
                      ELSE {Nil, <<"rpc error", "ExecuteTransaction">>}) :
            /\ loc' = [loc EXCEPT !.txBytesRaw = txBytes, !.signatureRaw = signature,
                                  !.err = e, !.resp = IF e = Nil THEN "executed" ELSE ""]
            /\ trace' = Append(trace, Entry(0, "SignExecuteTransaction",
                                  <<txBytes, signature>>, e))
        /\ rpc' = IF c.err # Nil THEN rpc ELSE Append(rpc, c.req)
    /\ UNCHANGED <<bvars, split, pc, bpc, calls, cvars>>

NextSign ==
    \/ XSignTransaction
    \/ XSignExecuteTransaction

SpecSign == Init /\ [][NextSign]_vars

(***************************************************************************)
(* Two goroutines on one module: each makes its own Builder from the same  *)
(* api.Module and calls PureAddress on it.  PureAddress runs as the steps  *)
(* of writeBytes (the module's alloc, then Memory().Write), the engine     *)
(* call, and freeBytes_ (the module's dealloc).  Nothing serialises the    *)
(* calls into the module: a second alloc may read the allocator's state    *)
(* before the first has updated it.                                        *)
(***************************************************************************)
Goroutines == {1, 2}

\* alloc, first half: the allocator finds the lowest block that is not in use
alloc_find(m) == CHOOSE k \in Blocks \ m.used : \A j \in Blocks \ m.used : k <= j

\* alloc, second half: the allocator marks the block as used and returns its address
alloc_take(m, k) == [m EXCEPT !.used = @ \cup {k}]

dealloc(m, k) == [m EXCEPT !.used = @ \ {k}]

\* a goroutine that is about to run b := NewBuilder(ctx, mod); b.PureAddress(addr)
Goroutine(addr) ==
    [pc |-> "NewBuilder", addr |-> addr, b |-> 0, ptr |-> 0, id |-> Zero64, err |-> ""]

InitConcurrent ==
    /\ InitBuilders
    /\ InitIdle
    /\ gor \in [Goroutines -> {Goroutine(a) : a \in Addresses}]

G_NewBuilder ==
    /\ ~panicked
    /\ \E g \in Goroutines :
        /\ gor[g].pc = "NewBuilder"
        /\ NewBuilder(Len(ptr) + 1)
        /\ gor' = [gor EXCEPT ![g].pc = "alloc", ![g].b = Len(ptr) + 1]
    /\ UNCHANGED <<pvars, mem>>

\* writeBytes: mod.ExportedFunction("alloc").Call is running
G_AllocFind ==
    /\ ~panicked
    /\ \E g \in Goroutines :
        /\ gor[g].pc = "alloc"
        /\ Blocks \ mem.used # {}
        /\ gor' = [gor EXCEPT ![g].pc = "alloc returns", ![g].ptr = alloc_find(mem)]
    /\ UNCHANGED <<bvars, pvars, mem>>

\* writeBytes: the alloc call returns ptr
G_AllocTake ==
    /\ ~panicked
    /\ \E g \in Goroutines :
        /\ gor[g].pc = "alloc returns"
        /\ mem' = alloc_take(mem, gor[g].ptr)
        /\ gor' = [gor EXCEPT ![g].pc = "Memory.Write"]
    /\ UNCHANGED <<bvars, pvars>>

\* writeBytes: mod.Memory().Write(uint32(ptr), data)
G_MemoryWrite ==
    /\ ~panicked
    /\ \E g \in Goroutines :
        /\ gor[g].pc = "Memory.Write"
        /\ mem' = [mem EXCEPT !.data[gor[g].ptr] = gor[g].addr]
        /\ gor' = [gor EXCEPT ![g].pc = "pure_address"]
    /\ UNCHANGED <<bvars, pvars>>

\* callFn(b.ctx, b.mod, "pure_address", b.ptr, ptr, size): the engine reads the address
\* from the module memory at ptr
G_PureAddress ==
    /\ ~panicked
    /\ \E g \in Goroutines :
        /\ gor[g].pc = "pure_address"
        /\ PureAddress(gor[g].b, mem.data[gor[g].ptr])
        /\ gor' = [gor EXCEPT ![g].pc = "dealloc", ![g].id = ret'.id, ![g].err = ret'.err]
    /\ UNCHANGED <<pvars, mem>>

\* the deferred freeBytes_: mod.ExportedFunction("dealloc").Call(ctx, ptr, size)
G_Dealloc ==
    /\ ~panicked
    /\ \E g \in Goroutines :
        /\ gor[g].pc = "dealloc"
        /\ mem' = dealloc(mem, gor[g].ptr)
        /\ gor' = [gor EXCEPT ![g].pc = "done"]
    /\ UNCHANGED <<bvars, pvars>>

NextConcurrent ==
    \/ G_NewBuilder
    \/ G_AllocFind
    \/ G_AllocTake
    \/ G_MemoryWrite
    \/ G_PureAddress
    \/ G_Dealloc

SpecConcurrent == InitConcurrent /\ [][NextConcurrent]_vars

(***************************************************************************)
(* The four methods that return only an error, with an engine that may     *)
(* answer any status: the uint64 callFn returns, and beside it the value   *)
(* it has when read as a signed 32-bit integer.                            *)
(***************************************************************************)
StatusCases ==
    {<<<<1, 0, 0, 0>>, 1>>,
     <<<<0, 0, 0, 0>>, 0>>,
     <<<<2, 0, 0, 0>>, 2>>,
     <<<<65535, 32767, 0, 0>>, 2147483647>>,
     <<<<1, 0, 1, 0>>, 1>>,
     <<<<65535, 65535, 65535, 65535>>, -1>>,
     <<<<65534, 65535, 65535, 65535>>, -2>>,
     <<<<65534, 65535, 0, 0>>, -2>>,
     <<<<65535, 65535, 0, 0>>, -1>>}

\* the engine call returned raw
Answer(raw) == [raw |-> raw, trap |-> FALSE]

\* one call in SpecStatus: the method, the status the engine answered, the digest
\* argument (AddGasObject), and what the method returned
StatusCall(op, raw, digest) ==
    /\ Len(trace) < MaxStatusCalls
    /\ trace' = Append(trace, Entry(0, op, <<raw, digest>>, ErrOf(ret')))
    /\ UNCHANGED <<ptr, eng, hist, zeroCalls, panicked, split, pc, bpc, loc, rpc, calls, cvars>>

YSetConfig ==
    \E c \in StatusCases :
        ret' = SetConfigResult(1, Answer(c[1])) /\ StatusCall("SetConfig", c[1], "")

YAddGasObject ==
    \E c \in StatusCases, d \in Digests :
        ret' = AddGasObjectResult(1, Answer(c[1]), d) /\ StatusCall("AddGasObject", c[1], d)

YMergeCoins ==
    \E c \in StatusCases :
        ret' = MergeCoinsResult(1, Answer(c[1])) /\ StatusCall("MergeCoins", c[1], "")

YTransferObjects ==
    \E c \in StatusCases :
        ret' = TransferObjectsResult(1, Answer(c[1]))
            /\ StatusCall("TransferObjects", c[1], "")

NextStatus ==
    \/ YSetConfig
    \/ YAddGasObject
    \/ YMergeCoins
    \/ YTransferObjects

SpecStatus == Init /\ [][NextStatus]_vars

(***************************************************************************)
(* The methods that return (uint64, error), each applied to an engine that *)
(* may answer any value: an Argument ID, or a status of either width.      *)
(***************************************************************************)
\* one call in SpecIds: the method reads the engine's answer as an int64
IdCall(op, raw, ev, msg) ==
    /\ ret' = IdResult(op, 1, Answer(raw), ev, msg)
    /\ StatusCall(op, raw, "")

ZInputObject ==
    \E c \in StatusCases :
        IdCall("InputObject", c[1], <<"alloc", "input_object", "dealloc">>,
               "input_object failed")

ZPureAddress ==
    \E c \in StatusCases :
        IdCall("PureAddress", c[1], <<"alloc", "pure_address", "dealloc">>,
               "pure_address: invalid address")

ZMoveCall ==
    \E c \in StatusCases :
        IdCall("MoveCall", c[1], <<"alloc", "command_move_call", "dealloc">>,
               "command_move_call failed")

ZSplitCoins ==
    \E c \in StatusCases :
        IdCall("SplitCoins", c[1], <<"alloc", "command_split_coins", "dealloc">>,
               "command_split_coins failed")

ZMakeMoveVec ==
    \E c \in StatusCases :
        IdCall("MakeMoveVec", c[1], <<"alloc", "command_make_move_vec", "dealloc">>,
               "command_make_move_vec failed")

ZPublish ==
    \E c \in StatusCases :
        IdCall("Publish", c[1], <<"alloc", "command_publish", "dealloc">>,
               "command_publish failed")

ZUpgrade ==
    \E c \in StatusCases :
        IdCall("Upgrade", c[1], <<"alloc", "command_upgrade", "dealloc">>,
               "command_upgrade failed")

NextIds ==
    \/ ZInputObject
    \/ ZPureAddress
    \/ ZMoveCall
    \/ ZSplitCoins
    \/ ZMakeMoveVec
    \/ ZPublish
    \/ ZUpgrade

SpecIds == Init /\ [][NextIds]_vars

(***************************************************************************)
(* A caller that splits the gas coin, addresses outputs of the split with  *)
(* NestedResult (sub-index 0 is the one output of a one-amount split,      *)
(* sub-index 1 is beyond it) and builds.                                   *)
(***************************************************************************)
\* NestedResult has room for one slot after the last command
CNestedOutput ==
    /\ ~panicked
    /\ \E b \in Created, x \in ClientIds, i \in {N64(0), N64(1)} :
        /\ Live(ptr[b]) => Len(eng[Small(ptr[b])].args) <= MaxArgs
        /\ NestedResult(b, x, i)
    /\ UNCHANGED <<pvars, cvars>>

NextNested ==
    \/ CNewBuilder
    \/ CSetConfig
    \/ CAddGasObject
    \/ CGasArgument
    \/ CSplitCoins
    \/ CNestedOutput
    \/ CBuild

SpecNested == Init /\ [][NextNested]_vars

(***************************************************************************)
(* Properties of the Builder's lifecycle, checked under Spec.              *)
(***************************************************************************)
\* the last call was a Build that returned (did not panic)
BuildReturned == ret.op = "Build" /\ ret.err # "panic"

\* C1: after any Build that returns, with bytes or with any of its three errors, the
\* builder's handle field is cleared (ptr = 0).
C1_BuildClearsHandle == BuildReturned => ptr[ret.b] = Zero64

\* a Build of a Draft builder (it held its handle) returned an error, and the handle is cleared
C1_Witness ==
    /\ BuildReturned
    /\ ret.p # Zero64
    /\ ret.err = "build_transaction: failed to read length prefix"
    /\ ptr[ret.b] = Zero64

\* C2: for every handle, free_builder is called at most once and never after
\* build_transaction was called with it: a free_builder call is the first lifecycle
\* call the handle sees.
C2_NoDoubleRelease ==
    \A h \in Handles : \A i \in 1..Len(hist[h]) : hist[h][i] = "free_builder" => i = 1

\* Free was called on a builder already consumed by Build, and made no engine call
C2_Witness ==
    /\ ret.op = "Free"
    /\ ret.ev = <<>>
    /\ hist[1] = <<"build_transaction">>

\* C4 (as claimed): a call on a builder whose handle was already cleared returns an
\* error and calls no engine function with the cleared handle.
C4_UseAfterConsumeRejected ==
    /\ zeroCalls = {}
    /\ (ret.op \notin {"", "NewBuilder", "Free"} /\ ret.p = Zero64)
          => (ret.err \notin {"", "panic"} /\ ret.ev = <<>>)

\* C5: a Build whose build_transaction yields a null buffer handle returns (nil, error),
\* reads no memory and calls no free_bytes; and a Draft builder that lacks the sender,
\* the gas object, the budget, the price or a command gets a null buffer handle.
C5_NullBufferIsError ==
    [][(ret'.op = "Build" /\ ret'.err # "panic")
          => /\ (Live(ptr[ret'.b]) /\ ~Buildable(eng[Small(ptr[ret'.b])]))
                    => Uint32(ret'.id) = <<0, 0>>
             /\ Uint32(ret'.id) = <<0, 0>>
                    => /\ ret'.nil
                       /\ ret'.bytes = <<>>
                       /\ ret'.err = "build_transaction failed"
                       /\ ret'.ev = <<"build_transaction">>]_vars

\* Build was called on a Draft builder with no configuration, and failed
C5_Witness ==
    /\ BuildReturned
    /\ ret.p # Zero64
    /\ ret.err = "build_transaction failed"
    /\ ret.nil
    /\ hist[1] = <<"build_transaction">>

\* the call returned the error msg without a call into the engine: nothing was
\* allocated there, no command was appended, handle and engine state are as they were
RejectedBeforeEngine(msg) ==
    /\ ret'.err = msg
    /\ ret'.ev = <<>>
    /\ UNCHANGED <<ptr, eng, hist, zeroCalls, panicked>>

\* C11: SplitCoins with no amounts, MergeCoins with no sources and TransferObjects with
\* no objects return an error before any engine call: no engine memory is allocated, no
\* command is appended, the builder's handle and state are unchanged.
C11_EmptyListRejected ==
    [][\A b \in Created, x \in ClientIds :
          /\ SplitCoins(b, x, <<>>)
                => RejectedBeforeEngine("SplitCoins: at least one amount required")
          /\ MergeCoins(b, x, <<>>)
                => RejectedBeforeEngine("MergeCoins: at least one source required")
          /\ TransferObjects(b, <<>>, x)
                => RejectedBeforeEngine("TransferObjects: at least one object required")]_vars

\* MergeCoins with no sources was refused on a Draft builder that holds arguments
C11_Witness ==
    /\ ret.op = "MergeCoins"
    /\ ret.err = "MergeCoins: at least one source required"
    /\ Live(ptr[ret.b])
    /\ eng[ret.b].args # <<>>

\* C12 (as claimed): MakeMoveVec with no elements returns an error as SplitCoins,
\* MergeCoins and TransferObjects do for their empty list: before the engine is called,
\* and no command is appended.
C12_MakeMoveVecRejectsEmpty ==
    [][\A b \in Created, t \in TypeTags :
          MakeMoveVec(b, t, <<>>)
              => /\ ret'.err \notin {"", "panic"}
                 /\ ret'.ev = <<>>
                 /\ UNCHANGED <<ptr, eng, hist, zeroCalls, panicked>>]_vars

\* the argument has both forms, or none
Malformed(a) == (a.ArgID = <<>>) = (a.PureBCS = <<>>)

\* C13 (as claimed): on a Draft builder MoveCall returns an error and issues no command
\* when an argument has both ArgID and PureBCS set or neither of them; every argument
\* of an issued MoveCall reaches the engine in exactly one of the two forms.
C13_MoveCallRejectsMalformed ==
    [][\A b \in Created, a \in CallArgLists :
          (Live(ptr[b]) /\ MoveCall(b, "0x2", "coin", "value", <<>>, a))
              => /\ (\E i \in 1..Len(a) : Malformed(a[i]))
                        => (ret'.err = "command_move_call failed" /\ eng' = eng)
                 /\ ret'.err = ""
                        => LET cs == eng'[Small(ptr[b])].cmds
                           IN  \A i \in 1..Len(a) : OneForm(cs[Len(cs)].call[i])]_vars

\* C15: on a Draft builder every GasArgument call returns the same Argument ID, whatever
\* was allocated or issued in between, and a repeated call allocates no slot.
C15_GasArgumentIdempotent ==
    [][/\ \A h \in Handles :
            (eng[h].st = "live" /\ eng'[h].st = "live" /\ eng[h].gasArg >= 0)
                => eng'[h].gasArg = eng[h].gasArg
       /\ (ret'.op = "GasArgument" /\ Live(ptr[ret'.b]))
            => LET h == Small(ptr[ret'.b]) IN
                /\ ret'.err = ""
                /\ ret'.id = N64(eng'[h].gasArg)
                /\ eng[h].gasArg >= 0 => eng' = eng]_vars

\* GasArgument was called again after a SplitCoins on the gas coin had taken a slot for
\* its result, and returned the ID of the gas coin
C15_Witness ==
    /\ ret.op = "GasArgument"
    /\ ret.id = N64(0)
    /\ Live(ptr[ret.b])
    /\ Len(eng[ret.b].args) = 2
    /\ eng[ret.b].args[1].kind = "gas"
    /\ eng[ret.b].args[2].kind = "result"
    /\ eng[ret.b].cmds # <<>>

\* the methods that return the Argument ID of a new slot
AllocOps == {"GasArgument", "PureU64", "PureAddress", "NestedResult", "SplitCoins"}

\* C20: while a builder is a Draft, its argument table only grows, one slot per call;
\* the call that allocates slot number n (n = 0, 1, 2, ...) returns n, so the IDs are
\* strictly increasing and dense in allocation order and no ID names two slots.
C20_ArgumentIdsDense ==
    [][\A h \in Handles :
          (eng[h].st = "live" /\ eng'[h].st = "live")
              => LET n == Len(eng[h].args) IN
                  /\ Len(eng'[h].args) \in {n, n + 1}
                  /\ SubSeq(eng'[h].args, 1, n) = eng[h].args
                  /\ Len(eng'[h].args) = n + 1
                        => /\ ret'.op \in AllocOps
                           /\ ret'.err = ""
                           /\ ret'.id = N64(n)
                  /\ (ret'.op \in AllocOps \ {"GasArgument"} /\ ret'.err = "")
                        => Len(eng'[h].args) = n + 1]_vars

\* the second slot of a builder was allocated by NestedResult, which returned ID 1
C20_Witness ==
    /\ ret.op = "NestedResult"
    /\ ret.id = N64(1)
    /\ Live(ptr[ret.b])
    /\ Len(eng[ret.b].args) = 2
    /\ eng[ret.b].args[2].kind = "nested"

\* the Argument IDs builder b has returned so far: one for every slot of its table
ReturnedIds(b) == {N64(i) : i \in 0..(Len(eng[Small(ptr[b])].args) - 1)}

\* the members of the list l
Members(l) == {l[i] : i \in 1..Len(l)}

\* the call failed, and it left the command sequence and the argument table of b alone
Refused(b) ==
    /\ ret'.err \notin {"", "panic"}
    /\ eng'[Small(ptr[b])].cmds = eng[Small(ptr[b])].cmds
    /\ eng'[Small(ptr[b])].args = eng[Small(ptr[b])].args

\* the Argument IDs the command c references
Refs(c) ==
    (IF c.kind \in {"MakeMoveVec", "MoveCall"} THEN {} ELSE {c.coin})
        \cup Members(c.list)
        \cup {c.call[i].id[1] : i \in {j \in 1..Len(c.call) : c.call[j].id # <<>>}}

\* every command of the builder e references slots of its table only, and a slot that
\* holds a command's result only when that command is strictly earlier
WellReferenced(e) ==
    \A k \in 1..Len(e.cmds) : \A x \in Refs(e.cmds[k]) :
        /\ Small(x) \in 0..(Len(e.args) - 1)
        /\ e.args[Small(x) + 1].kind = "result" => e.args[Small(x) + 1].cmd + 1 < k

\* C21: no command of a builder's sequence references an Argument ID that was not
\* allocated or produced earlier in that builder: SplitCoins, MergeCoins,
\* TransferObjects, MakeMoveVec, MoveCall and Upgrade called with an Argument ID the
\* builder has never returned fail with an error and append no command.
C21_NoUnallocatedReference ==
    [][\A b \in Created : Live(ptr[b]) =>
          /\ \A c \in ClientIds, l \in IdLists \ {<<>>} :
                ~(({c} \cup Members(l)) \subseteq ReturnedIds(b))
                    => /\ (ret'.op = "SplitCoins" /\ SplitCoins(b, c, l)) => Refused(b)
                       /\ (ret'.op = "MergeCoins" /\ MergeCoins(b, c, l)) => Refused(b)
                       /\ (ret'.op = "TransferObjects" /\ TransferObjects(b, l, c))
                             => Refused(b)
          /\ \A t \in TypeTags, l \in IdLists :
                (/\ ~(Members(l) \subseteq ReturnedIds(b))
                 /\ ret'.op = "MakeMoveVec"
                 /\ MakeMoveVec(b, t, l)) => Refused(b)
          /\ \A a \in CallArgLists :
                (/\ \E i \in 1..Len(a) :
                        a[i].ArgID # <<>> /\ a[i].ArgID[1] \notin ReturnedIds(b)
                 /\ ret'.op = "MoveCall"
                 /\ MoveCall(b, "0x2", "coin", "value", <<>>, a)) => Refused(b)
          /\ \A t \in ClientIds :
                (/\ t \notin ReturnedIds(b)
                 /\ ret'.op = "Upgrade"
                 /\ Upgrade(b, <<<<1>>>>, <<"0x2">>, "0xC", t)) => Refused(b)
          /\ WellReferenced(eng'[Small(ptr[b])])]_vars

\* Upgrade was called with a ticket ID the builder had never returned, on a builder
\* whose table has one slot and which has commands: it failed, the command is not there
C21_Witness ==
    /\ ret.op = "Upgrade"
    /\ ret.err = "command_upgrade failed"
    /\ Live(ptr[ret.b])
    /\ Len(eng[ret.b].args) >= 1
    /\ \A k \in 1..Len(eng[ret.b].cmds) : eng[ret.b].cmds[k].kind # "Upgrade"

\* C23 (as claimed): InputObject never silently accepts a malformed object reference:
\* for every ownership kind (owned, immutable, receiving, shared), a call with a
\* malformed object id or a malformed digest returns an error and allocates no
\* Argument ID.
C23_InputObjectRejectsMalformed ==
    [][\A b \in Created, i \in AnyObjectIds, v \in Versions, d \in Digests,
          k \in ObjectKinds, m \in BOOLEAN :
          (/\ Live(ptr[b])
           /\ i \notin ObjectIds \/ d \notin ValidDigests
           /\ InputObject(b, i, v, d, k, m)) => Refused(b)]_vars

\* C23 (amended): a call with a malformed object id, for every ownership kind, and a
\* call with a malformed digest, for the kinds owned, immutable and receiving, returns
\* an error and allocates no Argument ID; the digest given with a shared object is not
\* part of what InputObject sends.
C23_InputObjectRejectsMalformedSent ==
    [][\A b \in Created, i \in AnyObjectIds, v \in Versions, d \in Digests,
          k \in ObjectKinds, m \in BOOLEAN :
          (/\ Live(ptr[b])
           /\ i \notin ObjectIds \/ (k # ObjectKindShared /\ d \notin ValidDigests)
           /\ InputObject(b, i, v, d, k, m)) => Refused(b)]_vars

\* InputObject failed on a builder that already holds an object input: that input is
\* the only slot of the table
C23_Witness ==
    /\ ret.op = "InputObject"
    /\ ret.err = "input_object failed"
    /\ ret.code = -2
    /\ Live(ptr[ret.b])
    /\ Len(eng[ret.b].args) = 1
    /\ eng[ret.b].args[1].kind = "object"

\* C28: after a Build that failed, a call to Free on the same builder makes no engine
\* call: the Go side can release a handle only while the builder has never been passed
\* to Build, so releasing the handle of a failed build is left to the engine's
\* build_transaction.
C28_FreeAfterFailedBuild ==
    [][ret'.op = "Free" =>
          /\ eng[ret'.b].st = "refused"
                => /\ ret'.ev = <<>>
                   /\ ret'.err = ""
                   /\ UNCHANGED <<ptr, eng, hist, zeroCalls, panicked>>
          /\ ret'.ev # <<>> => hist[ret'.b] = <<>> /\ hist'[ret'.b] = <<"free_builder">>]_vars

\* Build was refused by the engine, then Free was called: the builder's handle was
\* cleared by Build and Free made no engine call
C28_Witness ==
    /\ ret.op = "Free"
    /\ ret.ev = <<>>
    /\ ret.p = Zero64
    /\ eng[ret.b].st = "refused"
    /\ hist[ret.b] = <<"build_transaction">>

\* C29 (as claimed): whenever build_transaction returns a non-null buffer handle, Build
\* calls free_bytes for that buffer exactly once on every return path (success,
\* unreadable length prefix, unreadable payload) and never reads the buffer after
\* freeing it; when the handle is null, free_bytes is not called.
C29_FreeBytesOnceAndLast ==
    BuildReturned =>
        LET frees == {i \in 1..Len(ret.ev) : ret.ev[i] = "free_bytes"} IN
        IF Uint32(ret.id) = <<0, 0>>
        THEN frees = {}
        ELSE /\ Cardinality(frees) = 1
             /\ \A i \in frees, j \in 1..Len(ret.ev) :
                    j > i => ret.ev[j] \notin {"read_len", "read_payload", "copy"}

\* C16 (as claimed): a Build of a Draft builder that returns bytes returns the payload of
\* the engine's framed buffer: as many bytes as the 4-byte little-endian prefix says, and
\* exactly the bytes that follow the prefix.
C16_BuildReturnsPayload ==
    [][(ret'.op = "Build" /\ ~ret'.nil /\ Live(ptr[ret'.b]))
          => LET h == Small(ptr[ret'.b])
                 buf == build_transaction(eng[h], h).buf
             IN  /\ Len(ret'.bytes) = Uint32LE(SubSeq(buf, 1, 4))
                 /\ ret'.bytes = SubSeq(buf, 5, Len(buf))]_vars

(***************************************************************************)
(* Properties of the pipeline, checked under SpecPipeline.                 *)
(***************************************************************************)
\* the calls buildTx number k made
Calls(k) == SelectSeq(trace, LAMBDA e : e.k = k)

\* C3 (as claimed): once a buildTx has returned, the handle it got from NewBuilder is
\* no longer held by the engine (it was given to build_transaction or to free_builder).
C3_BuildTxReleasesHandle ==
    \A b \in 1..Len(ptr) : (b < loc.b \/ bpc = "idle") => eng[b].st # "live"

\* the steps of SignExecuteTx whose error it returns
Steps ==
    SelectSeq(trace, LAMBDA e : e.op \in {"Build", "SimulateTransaction", "EstimateGasBudget",
                                          "SignTransaction", "SignExecuteTransaction"})

\* a step of SignExecuteTx failed before anything was submitted
FailedBeforeSubmit(e) ==
    /\ e.err # Nil
    /\ e.op \in {"SetConfig", "AddGasObject", "Build", "SimulateTransaction",
                 "EstimateGasBudget", "SignTransaction", "DecodeString",
                 "SignExecuteTransaction"}
    /\ e.err # <<"rpc error", "ExecuteTransaction">>

\* C6: ExecuteTransaction is issued at most once, and only after the first Build,
\* SimulateTransaction, EstimateGasBudget, the second Build, SignTransaction and the
\* signature check succeeded, in this order; a step that fails is the last thing the
\* pipeline does, its error is the one returned, and nothing is submitted.
C6_SubmitOnlyAfterAllSteps ==
    /\ Executed =>
        /\ [i \in 1..Len(Steps) |-> <<Steps[i].k, Steps[i].op>>]
              = <<<<1, "Build">>, <<0, "SimulateTransaction">>, <<0, "EstimateGasBudget">>,
                  <<2, "Build">>, <<0, "SignTransaction">>, <<0, "SignExecuteTransaction">>>>
        /\ \A i \in 1..5 : Steps[i].err = Nil
        /\ SignatureCheck(loc.txBytesRaw, loc.signatureRaw).err = Nil
        /\ Cardinality({i \in 1..Len(rpc) : rpc[i].name = "ExecuteTransaction"}) = 1
    /\ \A i \in 1..Len(trace) : FailedBeforeSubmit(trace[i]) =>
        /\ i = Len(trace)
        /\ pc = "done"
        /\ loc.err = trace[i].err
        /\ ~Executed

\* a transaction was submitted
C6_Witness == Executed /\ pc = "done" /\ loc.resp = "executed"

\* C7: when the simulated effects report failure, EstimateGasBudget returns 0 and an
\* error carrying the reported error string; SignExecuteTx returns that error and does
\* not build again, sign or submit.
C7_SimulationFailureStops ==
    \A i \in 1..Len(trace) :
        (trace[i].op = "EstimateGasBudget" /\ ~trace[i].in[1].success) =>
            /\ loc.optimalBudget = Zero64
            /\ trace[i].err = <<"simulation failed", trace[i].in[1].error>>
            /\ pc = "done"
            /\ loc.err = trace[i].err
            /\ i = Len(trace)
            /\ Len(ptr) = 1
            /\ ~Executed

\* the simulation reported failure and the pipeline returned
C7_Witness ==
    /\ pc = "done"
    /\ loc.simResp # <<>>
    /\ ~loc.simResp.success
    /\ loc.err = <<"simulation failed", "InsufficientGas">>

\* ten times q on uint64
Mul10(q) ==
    LET d == Add64(q, q)
        f == Add64(Add64(d, d), q)
    IN  Add64(f, f)

Masked(e) ==
    [op |-> e.op, in |-> IF e.op = "SetConfig" THEN <<e.in[1], e.in[3]>> ELSE e.in]

\* the second buildTx has made its last call
Rebuilt == \E i \in 1..Len(trace) : trace[i].k = 2 /\ trace[i].op = "Build"

\* C9: the second build makes the same calls with the same inputs as the first, but for
\* the gas budget, which is the value EstimateGasBudget returned.
C9_RebuildDiffersInBudgetOnly ==
    Rebuilt =>
        /\ [i \in 1..Len(Calls(1)) |-> Masked(Calls(1)[i])]
              = [i \in 1..Len(Calls(2)) |-> Masked(Calls(2)[i])]
        /\ Calls(2)[2].op = "SetConfig"
        /\ Calls(2)[2].in[2] = loc.optimalBudget
        /\ loc.optimalBudget = EstimateGasBudget(loc.simResp).budget

\* the rebuild was made with a budget other than the provisional one
C9_Witness ==
    /\ Rebuilt
    /\ Len(Calls(2)) = 10
    /\ Calls(1)[2].in[2] # Calls(2)[2].in[2]

\* C10 (as claimed): a builder call of buildTx that fails is the last call of that
\* buildTx (no later allocation or command, no Build), and once that buildTx has
\* returned, its error is what was returned.
C10_BuildTxFailsFast ==
    \A i \in 1..Len(trace) :
        (trace[i].k > 0 /\ trace[i].err # Nil) =>
            /\ \A j \in (i + 1)..Len(trace) : trace[j].k # trace[i].k
            /\ (bpc = "idle" \/ loc.b > trace[i].k) => (pc = "done" /\ loc.err = trace[i].err)

\* C18 (as claimed): when SignExecuteTx has returned, with a response or with an error,
\* every field of the SplitCoin object has the value it had when the call was made.
C18_RequestNotMutated == pc = "done" => split = calls[Len(calls)].before

\* C19 (as claimed): once a SignExecuteTx call on a SplitCoin object has submitted a
\* transaction, a later call on the same object builds no transaction and issues no RPC
\* (no simulation, no submission).
C19_SubmittedIsTerminal ==
    (\E i \in 1..(Len(calls) - 1) : calls[i].submitted)
        => /\ \A j \in 1..Len(trace) : trace[j].op \notin {"Build", "SimulateTransaction"}
           /\ rpc = <<>>

(***************************************************************************)
(* Properties of signing and submitting, checked under SpecSign.           *)
(***************************************************************************)
\* the scheme the specification gives for a flag byte
SchemeOfFlag(f) == IF f = 0 THEN "ED25519" ELSE IF f = 1 THEN "SECP256K1" ELSE "SECP256R1"

\* C14: SignExecuteTransaction returns an error and issues no RPC for every signature
\* whose length is not 97 and for every 97-byte signature whose first byte is not 0, 1
\* or 2; a 97-byte signature with flag 0 is submitted as Ed25519, with 1 as Secp256k1,
\* with 2 as Secp256r1.
C14_SignatureChecked ==
    [][(trace' # trace /\ trace'[Len(trace')].op = "SignExecuteTransaction")
          => LET call == trace'[Len(trace')]
                 sig == call.in[2]
             IN  IF Len(sig) # 97 \/ sig[1] \notin {0, 1, 2}
                 THEN /\ rpc' = rpc
                      /\ call.err # Nil
                      /\ call.err[1] # "rpc error"
                 ELSE /\ Len(rpc') = Len(rpc) + 1
                      /\ SubSeq(rpc', 1, Len(rpc)) = rpc
                      /\ rpc'[Len(rpc')].name = "ExecuteTransaction"
                      /\ rpc'[Len(rpc')].scheme = SchemeOfFlag(sig[1])]_vars

\* a 97-byte signature with a flag that names no scheme was refused
C14_Witness ==
    /\ trace # <<>>
    /\ trace[Len(trace)].op = "SignExecuteTransaction"
    /\ Len(trace[Len(trace)].in[2]) = 97
    /\ trace[Len(trace)].in[2][1] = 3
    /\ loc.err = <<"Unsupported signature scheme flag", 3>>
    /\ rpc = <<>>

\* C17: the Signature string SignTransaction returns decodes from base64 to exactly 97
\* bytes, the first of them 0x00, so it passes the length and flag check of
\* SignExecuteTransaction.
C17_SignatureIs97Bytes ==
    loc.signed # <<>> =>
        LET d == DecodeString(loc.signed.Signature)
        IN  /\ d.ok
            /\ Len(d.bytes) = 97
            /\ d.bytes[1] = 0
            /\ SignatureCheck(loc.execBytes, d.bytes).err = Nil

\* the empty byte sequence was signed with the second account, and the signature was
\* submitted as Ed25519
C17_Witness ==
    /\ loc.signed # <<>>
    /\ loc.execBytes = <<>>
    /\ Len(trace) = 2
    /\ trace[1].op = "SignTransaction"
    /\ trace[2].op = "SignExecuteTransaction"
    /\ trace[1].in[2] = 250
    /\ trace[2].in[2] = DecodeString(loc.signed.Signature).bytes
    /\ Len(rpc) = 1
    /\ rpc[1].scheme = "ED25519"

\* the RPCs named n that the running SignExecuteTx has issued
Issued(n) == {i \in 1..Len(rpc) : rpc[i].name = n}

\* C24: the pipeline performs no retries: within one SignExecuteTx invocation
\* SimulateTransaction is called at most once and ExecuteTransaction at most once, and
\* an error returned by either RPC is returned to the caller as is, with no further RPC
\* or build attempted.
C24_NoRetries ==
    /\ Cardinality(Issued("SimulateTransaction")) <= 1
    /\ Cardinality(Issued("ExecuteTransaction")) <= 1
    /\ \A i \in 1..Len(trace) :
          (/\ trace[i].op \in {"SimulateTransaction", "SignExecuteTransaction"}
           /\ trace[i].err # Nil
           /\ trace[i].err[1] = "rpc error")
              => /\ i = Len(trace)
                 /\ pc = "done"
                 /\ loc.err = trace[i].err
                 /\ rpc[Len(rpc)].name = trace[i].err[2]
                 /\ Len(rpc) = IF trace[i].op = "SimulateTransaction" THEN 1 ELSE 2

\* the ExecuteTransaction RPC failed, after the one SimulateTransaction: SignExecuteTx
\* has returned that error
C24_Witness ==
    /\ pc = "done"
    /\ loc.err = <<"rpc error", "ExecuteTransaction">>
    /\ Len(rpc) = 2
    /\ rpc[1].name = "SimulateTransaction"
    /\ trace[Len(trace)].op = "SignExecuteTransaction"

\* C25: the transaction bytes SignExecuteTx submits to ExecuteTransaction are
\* byte-for-byte the bytes returned by the second Build (the one made with the final
\* budget): decoding SignedTx.TxBytes from standard base64 gives back the rawBCS given
\* to SignTransaction, and never the bytes of the first, provisional build.
C25_SubmitsSecondBuild ==
    /\ loc.signed # <<>>
          => /\ ret.op = "Build" /\ ret.b = 2
             /\ trace[Len(Calls(1)) + Len(Calls(2)) + 3].op = "SignTransaction"
             /\ trace[Len(Calls(1)) + Len(Calls(2)) + 3].in[1] = ret.bytes
             /\ DecodeString(loc.signed.TxBytes) = [ok |-> TRUE, bytes |-> ret.bytes]
    /\ Executed => rpc[Len(rpc)].bcs = ret.bytes

\* a transaction was submitted whose bytes differ from the bytes that were simulated
C25_Witness ==
    /\ Executed
    /\ rpc[1].name = "SimulateTransaction"
    /\ rpc[2].bcs # rpc[1].bcs
    /\ rpc[2].bcs = ret.bytes
    /\ ret.bytes # <<>>

\* C26: for every accepted 97-byte signature, SignExecuteTransaction sends bytes 1..64
\* as the signature, bytes 65..96 as the public key and the scheme mapped from byte 0
\* (the same scheme in the outer and in the simple signature), together with the
\* transaction bytes unchanged; the flag byte is in neither the signature nor the
\* public key.  (Byte number n of the claim is element n + 1 of the sequence.)
C26_SignatureSplit ==
    (/\ trace # <<>>
     /\ trace[Len(trace)].op = "SignExecuteTransaction"
     /\ Len(trace[Len(trace)].in[2]) = 97
     /\ trace[Len(trace)].in[2][1] \in {0, 1, 2})
        => LET sig == trace[Len(trace)].in[2]
               q == rpc[Len(rpc)]
           IN  /\ q.bcs = trace[Len(trace)].in[1]
               /\ q.simple.signature = [n \in 1..64 |-> sig[n + 1]]
               /\ q.simple.publicKey = [n \in 1..32 |-> sig[n + 65]]
               /\ q.scheme = SchemeOfFlag(sig[1])
               /\ q.simple.scheme = q.scheme
               /\ Len(q.simple.signature) + Len(q.simple.publicKey) = Len(sig) - 1

\* a made-up 97-byte signature with flag 2 was accepted and sent as Secp256r1
C26_Witness ==
    /\ trace # <<>>
    /\ trace[Len(trace)].op = "SignExecuteTransaction"
    /\ trace[Len(trace)].in[2] = SigBytes(97, 2)
    /\ loc.resp = "executed"
    /\ rpc[Len(rpc)].simple.scheme = "SECP256R1"
    /\ rpc[Len(rpc)].simple.publicKey[32] = 97

\* C27: SignExecuteTx never calls an operation on a builder after that builder's Build:
\* the draft build and the rebuild each use a fresh builder obtained from NewBuilder, so
\* on the success path exactly two handles are created and each is passed to
\* build_transaction exactly once.
C27_FreshBuilderPerBuild ==
    /\ zeroCalls = {}
    /\ \A b \in 1..2 :
          LET c == Calls(b) IN
          /\ c # <<>> <=> b \in Created
          /\ \A i \in 1..Len(c) :
                /\ c[i].op = "NewBuilder" <=> i = 1
                /\ c[i].op = "Build" => i = Len(c)
    /\ \A h \in Handles : hist[h] \in {<<>>, <<"build_transaction">>}
    /\ loc.signed # <<>>
          => /\ Len(ptr) = 2
             /\ \A h \in Handles : hist[h] = <<"build_transaction">>
             /\ \A b \in 1..2 : Calls(b)[Len(Calls(b))].op = "Build"

\* the pipeline went through: two builders were made, each was built once
C27_Witness ==
    /\ pc = "done"
    /\ loc.resp = "executed"
    /\ Len(ptr) = 2
    /\ hist = [h \in Handles |-> <<"build_transaction">>]
    /\ Calls(1)[1].op = "NewBuilder"
    /\ Calls(2)[1].op = "NewBuilder"

(***************************************************************************)
(* Properties of builders used by two goroutines, checked under            *)
(* SpecConcurrent.                                                         *)
(***************************************************************************)
\* the engine's answer to PureAddress(addr) of goroutine g on a fresh builder, as it is
\* when g is the only goroutine
Alone(g) == pure_address(NewEngine, gor[g].addr)

\* C22 (as claimed): two transactions built concurrently, each by its own goroutine on
\* its own Builder with its own handle, do not interfere: under every interleaving of
\* their steps (alloc, Memory.Write, engine call, dealloc on the module they were
\* created from), each goroutine ends with the arguments and the result it gets alone.
C22_NoInterference ==
    \A g \in DOMAIN gor :
        gor[g].pc = "done"
            => /\ eng[gor[g].b].args = Alone(g).e.args
               /\ (gor[g].err = "") = ~Neg64(Alone(g).raw)
               /\ gor[g].err = "" => gor[g].id = Alone(g).raw

(***************************************************************************)
(* Properties of the status methods, checked under SpecStatus.             *)
(***************************************************************************)
\* the status raw read as a signed 32-bit integer
AsInt32(raw) == (CHOOSE c \in StatusCases : c[1] = raw)[2]

\* the text of the error of op that carries the code
FailedText(op) ==
    CASE op = "SetConfig" -> "set_config failed"
      [] op = "AddGasObject" -> "add_gas_object failed"
      [] op = "MergeCoins" -> "command_merge_coins failed"
      [] OTHER -> "command_transfer_objects failed"

\* C30: SetConfig, AddGasObject, MergeCoins and TransferObjects return nil exactly when
\* the engine status, read as a signed 32-bit integer, equals 1; every other status (0,
\* any other positive value, any negative value) yields an error that carries the code,
\* and for AddGasObject status -2 yields an invalid-digest error naming the digest.
C30_NilIffStatusOne ==
    \A i \in 1..Len(trace) :
        trace[i].op \in {"SetConfig", "AddGasObject", "MergeCoins", "TransferObjects"}
            => LET code == AsInt32(trace[i].in[1]) IN
                /\ trace[i].err = Nil <=> code = 1
                /\ (code # 1 /\ ~(trace[i].op = "AddGasObject" /\ code = -2))
                      => trace[i].err = <<FailedText(trace[i].op), code>>
                /\ (trace[i].op = "AddGasObject" /\ code = -2)
                      => trace[i].err[1] = "add_gas_object: invalid digest " \o trace[i].in[2]

\* AddGasObject got status -2 (as a 32-bit value) for the digest "!bad", and a method got
\* a status whose low 32 bits are 1 and returned nil
C30_Witness ==
    /\ Len(trace) = 2
    /\ trace[1].op = "AddGasObject"
    /\ trace[1].in = <<<<65534, 65535, 0, 0>>, "!bad">>
    /\ trace[1].err[1] = "add_gas_object: invalid digest !bad"
    /\ trace[2].op = "TransferObjects"
    /\ trace[2].in[1] = <<1, 0, 1, 0>>
    /\ trace[2].err = Nil

(***************************************************************************)
(* Properties of the methods that return an Argument ID, checked under     *)
(* SpecIds.                                                                *)
(***************************************************************************)
IdMethods ==
    {"InputObject", "PureAddress", "MoveCall", "SplitCoins", "MakeMoveVec", "Publish",
     "Upgrade"}

\* C31: InputObject, PureAddress, MoveCall, SplitCoins, MakeMoveVec, Publish and Upgrade
\* never hand an engine failure code to the caller as a valid Argument ID: every negative
\* status yields (0, error), whether the engine returned it as a 64-bit signed integer or
\* as a 32-bit one (raw result 0x00000000FFFFFFFF for -1).
C31_NegativeStatusIsError ==
    (/\ trace # <<>>
     /\ ret.op \in IdMethods
     /\ trace[Len(trace)].op = ret.op
     /\ AsInt32(trace[Len(trace)].in[1]) < 0)
        => /\ ret.err # ""
           /\ ret.id = Zero64
           /\ trace[Len(trace)].err # Nil

(***************************************************************************)
(* Properties of the budget estimate over the whole uint64 range, checked  *)
(* under SpecPipeline.                                                     *)
(***************************************************************************)
\* C32: for all unsigned 64-bit computationCost and storageCost of a successful
\* simulation, the budget EstimateGasBudget returns is at least computationCost +
\* storageCost: neither the sum nor the addition of the 10% buffer wraps around 2^64.
C32_BudgetCoversCost ==
    (/\ trace # <<>>
     /\ trace[Len(trace)].op = "EstimateGasBudget"
     /\ trace[Len(trace)].in[1].success)
        => LET resp == trace[Len(trace)].in[1]
               sum == Add64(resp.computationCost, resp.storageCost)
           IN  /\ trace[Len(trace)].err = Nil
               /\ ~Less64(sum, resp.computationCost)
               /\ ~Less64(loc.optimalBudget, sum)

(***************************************************************************)
(* Properties of NestedResult, checked under SpecNested.                   *)
(***************************************************************************)
\* the nested-result slots of e that name no output of a command of e
OutOfRange(e) ==
    {k \in 1..Len(e.args) : e.args[k].kind = "nested" /\ ~NestedInRange(e, e.args[k])}

\* C33: NestedResult performs no range check: for every base ID and every sub-index, also
\* a sub-index at or beyond the output count of the base command, it returns an Argument
\* ID (the next slot of the table) without reporting an error and leaves the builder
\* usable, and an out-of-range sub-index is detected only when Build is called: Build
\* then fails with "build_transaction failed", which it does not for a configured
\* builder with commands whose nested results are all in range.
C33_NestedResultUnchecked ==
    [][\A b \in Created : Live(ptr[b]) =>
          LET e == eng[Small(ptr[b])] IN
            /\ \A x \in ClientIds, i \in {N64(0), N64(1)} :
                  (ret'.op = "NestedResult" /\ NestedResult(b, x, i)) =>
                      /\ ret'.err = ""
                      /\ ret'.id = N64(Len(e.args))
                      /\ ptr'[b] = ptr[b]
                      /\ Live(ptr'[b])
                      /\ eng'[Small(ptr[b])] =
                            [e EXCEPT !.args = Append(e.args, [kind |-> "nested",
                                                               base |-> x, sub |-> i])]
            /\ (ret'.op = "Build" /\ Build(b) /\ OutOfRange(e) # {})
                  => ret'.err = "build_transaction failed"
            /\ (/\ ret'.op = "Build"
                /\ Build(b)
                /\ OutOfRange(e) = {}
                /\ e.hasCfg /\ e.gas # <<>> /\ e.cmds # <<>>)
                  => ret'.err # "build_transaction failed"]_vars

\* NestedResult was called with sub-index 1 on the result of a SplitCoins of one amount,
\* on a builder that is otherwise ready to build: it returned the ID of a new slot and
\* no error
C33_Witness ==
    /\ ret.op = "NestedResult"
    /\ ret.err = ""
    /\ Live(ptr[ret.b])
    /\ LET e == eng[Small(ptr[ret.b])]
           a == e.args[Len(e.args)]
       IN  /\ e.hasCfg
           /\ e.gas # <<>>
           /\ ret.id = N64(Len(e.args) - 1)
           /\ a.kind = "nested"
           /\ a.sub = N64(1)
           /\ Allocated(e, a.base)
           /\ e.args[Small(a.base) + 1].kind = "result"
           /\ e.cmds[e.args[Small(a.base) + 1].cmd + 1].kind = "SplitCoins"
           /\ Len(e.cmds[e.args[Small(a.base) + 1].cmd + 1].list) = 1
           /\ OutOfRange(e) = {Len(e.args)}

====
